---------------------------- MODULE Spec2Model ----------------------------
(***************************************************************************)
(* Model of the deterministic simulation core of the snake arena:          *)
(*   src/src/game/prng.ts    - mulberry32 generator                        *)
(*   src/src/game/engine.ts  - createInitialState, advanceState and their  *)
(*                             helpers                                     *)
(*                                                                         *)
(* 32-bit words are pairs <<hi, lo>> of 16-bit limbs, since the generator  *)
(* works modulo 2^32 and TLC's integers are 32-bit signed.                *)
(***************************************************************************)
EXTENDS Integers, Sequences, FiniteSets, TLC

\* The const bindings of the source are written
\*     Pick({ body : name \in {value} })
\* which is body with name standing for the value, computed once; a chain of
\* bindings reads from its last line upwards.
Pick(S) == CHOOSE e \in S : TRUE

(***************************************************************************)
(* 32-bit word arithmetic (the >>> 0, ^, |, >>> k and Math.imul of prng.ts) *)
(***************************************************************************)
Limb == 2 ^ 16

RECURSIVE XorBits(_, _, _)
\* bitwise exclusive or of the n low bits of a and b
XorBits(a, b, n) ==
    IF n = 0 THEN 0
    ELSE ((a + b) % 2) + 2 * XorBits(a \div 2, b \div 2, n - 1)

\* the exclusive or of two 4-bit digits, tabulated
XorTable == [i \in 0..255 |-> XorBits(i \div 16, i % 16, 4)] @@ <<>>

Xor4(a, b) == XorTable[(a * 16) + b]

\* a ^ b on 16-bit limbs, digit by digit
Xor16(a, b) ==
    (Xor4(a \div 4096, b \div 4096) * 4096)
    + (Xor4((a \div 256) % 16, (b \div 256) % 16) * 256)
    + (Xor4((a \div 16) % 16, (b \div 16) % 16) * 16)
    + Xor4(a % 16, b % 16)

\* w1 ^ w2 on 32-bit words
WXor(w1, w2) == <<Xor16(w1[1], w2[1]), Xor16(w1[2], w2[2])>>

\* (w1 + w2) >>> 0
WAdd(w1, w2) ==
    LET lo == w1[2] + w2[2]
    IN  <<(w1[1] + w2[1] + (lo \div Limb)) % Limb, lo % Limb>>

\* w >>> k for 0 < k < 16
WShr(w, k) ==
    LET p == 2 ^ k
        q == 2 ^ (16 - k)
    IN  <<w[1] \div p, ((w[1] % p) * q) + (w[2] \div p)>>

\* w | 1
WOr1(w) == <<w[1], w[2] + (1 - (w[2] % 2))>>

\* w | 61   (61 = 0b111101: every low bit but bit 1)
WOr61(w) == <<w[1], (w[2] - (w[2] % 64)) + 61 + (((w[2] \div 2) % 2) * 2)>>

\* (a * b) mod 2^16 for 16-bit a, b, without leaving 32-bit integers
MulMod16(a, b) == (((a % 256) * b) + ((((a \div 256) * b) % 256) * 256)) % Limb

\* Math.imul(w1, w2): the low 32 bits of the product
WImul(w1, w2) ==
    LET al == w1[2]
        bl == w2[2]
        p0 == (al % 256) * bl
        p1 == (al \div 256) * bl
        s  == ((p1 % 256) * 256) + (p0 % Limb)
        hiOfLow == (p1 \div 256) + (p0 \div Limb) + (s \div Limb)
    IN  <<(hiOfLow + MulMod16(w1[1], bl) + MulMod16(al, w2[1])) % Limb, s % Limb>>

\* the word of a small non-negative integer (a seed >>> 0)
ToWord(n) == <<n \div Limb, n % Limb>>

\* 0x6d2b79f5, the increment of the generator's counter
RngIncrement == <<27947, 31221>>

\* prng.ts next(): the state after the call
RngAdvance(w) == WAdd(w, RngIncrement)

\* prng.ts next(): the 32-bit numerator of the value returned, computed from
\* the already advanced state
RngOutput(s) ==
    Pick({Pick({Pick({Pick({Pick({Pick({
        WXor(t2, WShr(t2, 14))
    : t2 \in {WXor(t1, d)}})
    : d \in {WAdd(t1, c)}})
    : c \in {WImul(b, WOr61(t1))}})
    : b \in {WXor(t1, WShr(t1, 7))}})
    : t1 \in {WImul(a, WOr1(s))}})
    : a \in {WXor(s, WShr(s, 15))}})

\* Math.floor(rng.next() * n) for the value v / 2^32 and a small n
FloorMul(v, n) == ((v[1] * n) + ((v[2] * n) \div Limb)) \div Limb

\* v1 / 2^32 > v2 / 2^32
WGreater(v1, v2) == v1[1] > v2[1] \/ (v1[1] = v2[1] /\ v1[2] > v2[2])

\* v1 / 2^32 <= v2 / 2^32
WLeq(v1, v2) == ~WGreater(v1, v2)


(***************************************************************************)
(* Exact rationals <<n, d>> for the speed multiplier and the accumulator    *)
(* (1.6 is 8/5; the code only compares an accumulator with 1).              *)
(***************************************************************************)
RECURSIVE Gcd(_, _)
Gcd(a, b) == IF b = 0 THEN a ELSE Gcd(b, a % b)

RNorm(r) == LET g == Gcd(r[1], r[2]) IN <<r[1] \div g, r[2] \div g>>
RAdd(r, q) == RNorm(<<(r[1] * q[2]) + (q[1] * r[2]), r[2] * q[2]>>)
RMul(r, q) == RNorm(<<r[1] * q[1], r[2] * q[2]>>)
RGeqOne(r) == r[1] >= r[2]
RLessOne(r) == r[1] < r[2]
RSubOne(r) == RNorm(<<r[1] - r[2], r[2]>>)
RZero == <<0, 1>>
ROne == <<1, 1>>

(***************************************************************************)
(* engine.ts: directions, positions, sequences                             *)
(***************************************************************************)
None == "none"

\* engine.ts:22
allDirections == <<"up", "down", "left", "right">>

Directions == {"up", "down", "left", "right"}

\* engine.ts:15-20
directionVectors(d) ==
    CASE d = "up"    -> <<0, -1>>
      [] d = "down"  -> <<0, 1>>
      [] d = "left"  -> <<-1, 0>>
      [] d = "right" -> <<1, 0>>

\* variant of the table of opposites whose horizontal entries are swapped
oppositeSwapped(d) ==
    CASE d = "up"    -> "down"
      [] d = "down"  -> "up"
      [] d = "left"  -> "left"
      [] d = "right" -> "right"

\* engine.ts:24-29
opposite(d) ==
    CASE d = "up"    -> "down"
      [] d = "down"  -> "up"
      [] d = "left"  -> "right"
      [] d = "right" -> "left"

\* engine.ts:33-39
nextPosition(from, direction) ==
    <<from[1] + directionVectors(direction)[1], from[2] + directionVectors(direction)[2]>>

Range(s) == {s[i] : i \in 1..Len(s)}

\* Array.prototype.map: the function as an evaluated sequence
AsSeq(f) == f \o <<>>

SetMax(S) == CHOOSE m \in S : \A n \in S : n <= m

MinOf(a, b) == IF a < b THEN a ELSE b
MaxOf(a, b) == IF a > b THEN a ELSE b
Abs(a) == IF a < 0 THEN -a ELSE a

\* Array.prototype.filter
RECURSIVE SelectSeqBy(_, _)
SelectSeqBy(s, keep) ==
    IF s = <<>> THEN <<>>
    ELSE (IF Head(s) \in keep THEN <<Head(s)>> ELSE <<>>) \o SelectSeqBy(Tail(s), keep)

\* variant of the grid test that admits the column past the right edge
InGridInclusive(pos, config) ==
    /\ pos[1] >= 0
    /\ pos[2] >= 0
    /\ pos[1] <= config.cols
    /\ pos[2] < config.rows

\* the grid test of engine.ts:200, 440 and 629-634
InGrid(pos, config) ==
    /\ pos[1] >= 0
    /\ pos[2] >= 0
    /\ pos[1] < config.cols
    /\ pos[2] < config.rows

(***************************************************************************)
(* engine.ts: configuration, agents, spawn layouts                         *)
(***************************************************************************)
\* engine.ts:41-47
defaultConfig == [cols |-> 32, rows |-> 24, tickRate |-> 10, seed |-> 1, aiCount |-> 2]

\* variant of the clamp that bounds the number of AI agents from above only
clampConfigNoFloor(config) ==
    [config EXCEPT !.cols = MaxOf(8, config.cols),
                   !.rows = MaxOf(8, config.rows),
                   !.tickRate = MaxOf(1, config.tickRate),
                   !.aiCount = MinOf(4, config.aiCount)]

\* engine.ts:49-55
clampConfig(config) ==
    [config EXCEPT !.cols = MaxOf(8, config.cols),
                   !.rows = MaxOf(8, config.rows),
                   !.tickRate = MaxOf(1, config.tickRate),
                   !.aiCount = MaxOf(0, MinOf(4, config.aiCount))]

\* engine.ts:57-82
buildSnake(id, head, direction, controller, safeUntilTick) ==
    LET vector == directionVectors(direction)
    IN  [id |-> id,
         segments |-> <<head,
                        <<head[1] - vector[1], head[2] - vector[2]>>,
                        <<head[1] - (vector[1] * 2), head[2] - (vector[2] * 2)>>>>,
         direction |-> direction,
         alive |-> TRUE,
         pendingTurn |-> None,
         speed |-> ROne,
         accumulator |-> RZero,
         controller |-> controller,
         pendingGrowth |-> 0,
         effects |-> <<>>,
         safeUntilTick |-> safeUntilTick]

\* variant of applyInput that queues every turn, reversals too
applyInputUnchecked(snake, direction) == [snake EXCEPT !.pendingTurn = direction]

\* engine.ts:86-91
applyInput(snake, direction) ==
    IF direction = opposite(snake.direction)
    THEN snake
    ELSE [snake EXCEPT !.pendingTurn = direction]

\* engine.ts:93-98
maybeTurn(snake) ==
    IF snake.pendingTurn # None /\ snake.pendingTurn # opposite(snake.direction)
    THEN [direction |-> snake.pendingTurn, pendingTurn |-> None]
    ELSE [direction |-> snake.direction, pendingTurn |-> snake.pendingTurn]

\* engine.ts:115-132
createSpawnPoints(config) ==
    LET margin  == MaxOf(3, MinOf(config.cols, config.rows) \div 10)
        rightX  == MaxOf(margin, config.cols - margin - 1)
        leftX   == MinOf(config.cols - margin - 1, margin)
        topY    == MinOf(config.rows - margin - 1, margin)
        bottomY == MaxOf(margin, config.rows - margin - 1)
        centerX == config.cols \div 2
    IN  << [head |-> <<leftX, topY>>, direction |-> "right"],
           [head |-> <<rightX, topY>>, direction |-> "left"],
           [head |-> <<rightX, bottomY>>, direction |-> "left"],
           [head |-> <<leftX, bottomY>>, direction |-> "right"],
           [head |-> <<centerX, topY>>, direction |-> "down"],
           [head |-> <<centerX, bottomY>>, direction |-> "up"] >>

(***************************************************************************)
(* engine.ts: food table, effects                                           *)
(***************************************************************************)
NoEffect == [type |-> None, multiplier |-> <<1, 1>>, duration |-> 0]

\* engine.ts:148
SpeedBoostTemplate == [type |-> "speedBoost", multiplier |-> <<8, 5>>, duration |-> 18]

\* engine.ts:141-150 (weights are the thresholds of pickFoodDefinition)
foodDefinitions ==
    << [kind |-> "standard", growth |-> 1, effect |-> NoEffect],
       [kind |-> "bulk", growth |-> 3, effect |-> NoEffect],
       [kind |-> "speed", growth |-> 1, effect |-> SpeedBoostTemplate] >>

\* floor(0.6 * 2^32) and floor(0.8 * 2^32): value = next() * 1; value -= 0.6;
\* value <= 0 picks standard; value -= 0.2; value <= 0 picks bulk
StandardCut == <<39321, 39321>>
BulkCut == <<52428, 52428>>

\* engine.ts:154-163, on the numerator v of the value drawn
pickFoodDefinition(v) ==
    IF WLeq(v, StandardCut) THEN foodDefinitions[1]
    ELSE IF WLeq(v, BulkCut) THEN foodDefinitions[2]
    ELSE foodDefinitions[3]

\* engine.ts:165
MAX_FOOD == 5
\* engine.ts:167
RESPAWN_DELAY_TICKS == 24
\* engine.ts:168
SAFE_RESPAWN_TICKS == 12

\* variant of the safe window that also covers the tick safeUntilTick itself
isSnakeSafeInclusive(snake, t) == t <= snake.safeUntilTick

\* engine.ts:170
isSnakeSafe(snake, t) == t < snake.safeUntilTick

\* engine.ts:172-173
pruneEffects(effects, t) ==
    SelectSeqBy(effects, {e \in Range(effects) : e.expiresAtTick > t})

\* engine.ts:175-181
RECURSIVE getSpeedMultiplier(_)
getSpeedMultiplier(effects) ==
    IF effects = <<>> THEN ROne
    ELSE LET rest == getSpeedMultiplier(SubSeq(effects, 1, Len(effects) - 1))
             last == effects[Len(effects)]
         IN  IF last.type = "speedBoost" THEN RMul(rest, last.multiplier) ELSE rest

\* engine.ts:183
manhattanDistance(a, b) == Abs(a[1] - b[1]) + Abs(a[2] - b[2])

(***************************************************************************)
(* engine.ts: occupancy                                                     *)
(***************************************************************************)
\* engine.ts:324-327 and 361-364: Map.set in agent order, so the last agent of
\* the list holding the cell is the one recorded
Occupant(snakes, cell) ==
    LET holders == {i \in 1..Len(snakes) : cell \in Range(snakes[i].segments)}
    IN  IF holders = {} THEN None ELSE snakes[SetMax(holders)].id

\* engine.ts:267-271 and 593-597
OccupiedCells(snakes, foods) ==
    UNION {Range(snakes[i].segments) : i \in 1..Len(snakes)}
        \cup {foods[i].position : i \in 1..Len(foods)}

(***************************************************************************)
(* engine.ts: AI policy                                                     *)
(***************************************************************************)
\* engine.ts:212-215: distance from target to the closest food
ClosestFood(foods, target) ==
    LET ds == {manhattanDistance(foods[i].position, target) : i \in 1..Len(foods)}
    IN  CHOOSE m \in ds : \A n \in ds : m <= n

\* variant of the policy that takes no account of the occupancy
AiBlockedNever(snake, occupancySnakes, target) == FALSE

\* engine.ts:204-209: the candidate is rejected for the cell's occupant
AiBlocked(snake, occupancySnakes, target) ==
    LET occupant == Occupant(occupancySnakes, target)
        tailCell == snake.segments[Len(snake.segments)]
        willVacateTail == snake.pendingGrowth <= 0
        movingIntoSelfTail == occupant = snake.id /\ target = tailCell /\ willVacateTail
    IN  occupant # None /\ ~movingIntoSelfTail

\* variant of the candidates in which the policy never turns
AiCandidatesStraight(snake) == <<snake.direction>>

\* engine.ts:190
AiCandidates(snake) ==
    SelectSeqBy(allDirections, Directions \ {opposite(snake.direction)})

\* engine.ts:197-229: the forEach over the candidates.  A score is
\* base / 2 + (v / 2^32 - 0.5) * 0.1 with base = -2 * closest + (1 if straight):
\* the noise is below the step of base, so scores compare as the pairs
\* (base, v).  A rejected candidate draws nothing.
RECURSIVE AiScan(_, _, _, _, _, _)
AiScan(cands, snake, st, occupancySnakes, best, rng) ==
    IF cands = <<>> THEN [direction |-> best.direction, rng |-> rng]
    ELSE
      Pick({Pick({Pick({
          IF ~InGrid(target, st.config) \/ AiBlocked(snake, occupancySnakes, target)
          THEN AiScan(rest, snake, st, occupancySnakes, best, rng)
          ELSE
            Pick({Pick({Pick({Pick({Pick({
                AiScan(rest, snake, st, occupancySnakes, chosen, rng1)
            : chosen \in {IF better THEN [direction |-> direction, base |-> base, v |-> v]
                          ELSE best}})
            : better \in {\/ best.direction = None
                          \/ base > best.base
                          \/ (base = best.base /\ WGreater(v, best.v))}})
            : v \in {RngOutput(rng1)}})
            : rng1 \in {RngAdvance(rng)}})
            : base \in {(IF Len(st.foods) > 0 THEN -(2 * ClosestFood(st.foods, target)) ELSE 0)
                          + (IF direction = snake.direction THEN 1 ELSE 0)}})
      : rest \in {Tail(cands)}})
      : target \in {nextPosition(snake.segments[1], direction)}})
      : direction \in {Head(cands)}})

\* engine.ts:185-232: the direction chosen (None for undefined) and the
\* generator state after the draws
computeAiTurn(snake, st, occupancySnakes, rng) ==
    IF ~snake.alive THEN [direction |-> None, rng |-> rng]
    ELSE Pick({Pick({
             AiScan(cands, snake, st, occupancySnakes, best, rng)
         : best \in {[direction |-> None, base |-> 0, v |-> <<0, 0>>]}})
         : cands \in {AiCandidates(snake)}})

(***************************************************************************)
(* engine.ts: food replenishment, initial state                             *)
(***************************************************************************)
\* engine.ts:286-292; the id string food-<tick>-<ordinal>-<kind> is the triple
MakeFood(t, ordinal, definition, pos) ==
    [id |-> <<t, ordinal, definition.kind>>,
     position |-> pos,
     kind |-> definition.kind,
     growth |-> definition.growth,
     effect |-> definition.effect]

\* variant of the attempts that takes the first cell drawn, free or not
PlaceOneAnywhere(st, foods, occupied, rng, left) ==
    Pick({Pick({Pick({Pick({Pick({Pick({
        [placed |-> TRUE,
         foods |-> Append(foods, MakeFood(st.tick, Len(foods), definition, <<x, y>>)),
         occupied |-> occupied \cup {<<x, y>>},
         rng |-> r3]
    : definition \in {pickFoodDefinition(RngOutput(r3))}})
    : r3 \in {RngAdvance(r2)}})
    : y \in {FloorMul(RngOutput(r2), st.config.rows)}})
    : r2 \in {RngAdvance(r1)}})
    : x \in {FloorMul(RngOutput(r1), st.config.cols)}})
    : r1 \in {RngAdvance(rng)}})

\* engine.ts:277-296: the attempts of one slot
RECURSIVE PlaceOne(_, _, _, _, _)
PlaceOne(st, foods, occupied, rng, left) ==
    IF left = 0 THEN [placed |-> FALSE, foods |-> foods, occupied |-> occupied, rng |-> rng]
    ELSE
      Pick({Pick({Pick({Pick({Pick({
          IF <<x, y>> \in occupied
          THEN PlaceOne(st, foods, occupied, r2, fewer)
          ELSE Pick({Pick({
                   [placed |-> TRUE,
                    foods |-> Append(foods, MakeFood(st.tick, Len(foods), definition, <<x, y>>)),
                    occupied |-> occupied \cup {<<x, y>>},
                    rng |-> r3]
               : definition \in {pickFoodDefinition(RngOutput(r3))}})
               : r3 \in {RngAdvance(r2)}})
      : fewer \in {left - 1}})
      : y \in {FloorMul(RngOutput(r2), st.config.rows)}})
      : r2 \in {RngAdvance(r1)}})
      : x \in {FloorMul(RngOutput(r1), st.config.cols)}})
      : r1 \in {RngAdvance(rng)}})

\* variant of the loop that stops one food late
RECURSIVE FillFoodsLate(_, _, _, _)
FillFoodsLate(st, foods, occupied, rng) ==
    IF Len(foods) > MAX_FOOD THEN [foods |-> foods, rng |-> rng]
    ELSE Pick({Pick({
             IF one.placed
             THEN FillFoodsLate(st, one.foods, one.occupied, one.rng)
             ELSE [foods |-> one.foods, rng |-> one.rng]
         : one \in {PlaceOne(st, foods, occupied, rng, maxAttempts)}})
         : maxAttempts \in {st.config.cols * st.config.rows}})

\* engine.ts:275-300: the while loop
RECURSIVE FillFoods(_, _, _, _)
FillFoods(st, foods, occupied, rng) ==
    IF Len(foods) >= MAX_FOOD THEN [foods |-> foods, rng |-> rng]
    ELSE Pick({Pick({
             IF one.placed
             THEN FillFoods(st, one.foods, one.occupied, one.rng)
             ELSE [foods |-> one.foods, rng |-> one.rng]
         : one \in {PlaceOne(st, foods, occupied, rng, maxAttempts)}})
         : maxAttempts \in {st.config.cols * st.config.rows}})

\* variant of replenishFood that returns the rngState it was given
replenishFoodStale(st, rng) ==
    IF Len(st.foods) >= MAX_FOOD THEN st
    ELSE Pick({Pick({
             [st EXCEPT !.foods = filled.foods]
         : filled \in {FillFoods(st, st.foods, occupied, rng)}})
         : occupied \in {OccupiedCells(st.snakes, st.foods)}})

\* engine.ts:262-307, called with the generator of the tick; the caller's state
\* already carries rngState = rng.state when the early return is taken
replenishFood(st, rng) ==
    IF Len(st.foods) >= MAX_FOOD THEN st
    ELSE Pick({Pick({
             [st EXCEPT !.foods = filled.foods, !.rngState = filled.rng]
         : filled \in {FillFoods(st, st.foods, occupied, rng)}})
         : occupied \in {OccupiedCells(st.snakes, st.foods)}})

\* engine.ts:245: the id string ai-<i>
AiId(i) == <<"ai-1", "ai-2", "ai-3", "ai-4">>[i]

\* engine.ts:243-247
InitialAi(config, spawnPoints) ==
    AsSeq([i \in 1..config.aiCount |->
        LET layout == IF i + 1 <= Len(spawnPoints)
                      THEN spawnPoints[i + 1]
                      ELSE spawnPoints[((i + 1) % Len(spawnPoints)) + 1]
        IN  buildSnake(AiId(i), layout.head, layout.direction, "ai", 0)])

\* engine.ts:234-260
createInitialState(partialConfig) ==
    Pick({Pick({Pick({Pick({Pick({Pick({
        replenishFood(st, rng)
    : st \in {[tick |-> 0,
               config |-> config,
               snakes |-> snakes,
               foods |-> <<>>,
               rngState |-> rng,
               status |-> "running",
               respawnQueue |-> <<>>]}})
    : rng \in {ToWord(config.seed)}})
    : snakes \in {<<buildSnake("player", playerLayout.head, playerLayout.direction, "player", 0)>>
                    \o InitialAi(config, spawnPoints)}})
    : playerLayout \in {spawnPoints[1]}})
    : spawnPoints \in {createSpawnPoints(config)}})
    : config \in {clampConfig(partialConfig)}})

(***************************************************************************)
(* engine.ts: advanceState                                                  *)
(***************************************************************************)
AllIds == {"player", "ai-1", "ai-2", "ai-3", "ai-4"}

\* undefined nextHead / tailKey / ateFoodId
NoCell == <<>>
NoFood == <<>>

\* variant of the command map in which the first command of an id wins
RECURSIVE BuildCommandMapFirst(_, _)
BuildCommandMapFirst(commands, cmap) ==
    IF commands = <<>> THEN cmap
    ELSE BuildCommandMapFirst(Tail(commands),
                              IF cmap[Head(commands).snakeId] = None
                              THEN [cmap EXCEPT ![Head(commands).snakeId] = Head(commands).direction]
                              ELSE cmap)

\* engine.ts:317-322: Map.set in list order, so the last command of an id wins
RECURSIVE BuildCommandMap(_, _)
BuildCommandMap(commands, cmap) ==
    IF commands = <<>> THEN cmap
    ELSE BuildCommandMap(Tail(commands),
                         [cmap EXCEPT ![Head(commands).snakeId] = Head(commands).direction])

\* engine.ts:329-336: AI agents without a command ask the policy, in list order
RECURSIVE AiBackfill(_, _, _, _)
AiBackfill(i, st, cmap, rng) ==
    IF i > Len(st.snakes) THEN [cmap |-> cmap, rng |-> rng]
    ELSE
      Pick({Pick({
          IF snake.controller = "ai" /\ cmap[snake.id] = None
          THEN Pick({Pick({Pick({
                   AiBackfill(next, st, cmap1, r.rng)
               : cmap1 \in {IF r.direction # None
                            THEN [cmap EXCEPT ![snake.id] = r.direction]
                            ELSE cmap}})
               : r \in {computeAiTurn(snake, st, occupancySnakes, rng)}})
               : occupancySnakes \in {st.snakes}})
          ELSE AiBackfill(next, st, cmap, rng)
      : next \in {i + 1}})
      : snake \in {st.snakes[i]}})

\* engine.ts:339-354: effect pruning and input application for one agent
PrepareSnake(snake, st, cmap) ==
    LET current == [snake EXCEPT !.effects = pruneEffects(snake.effects, st.tick)]
    IN  IF ~current.alive THEN current
        ELSE IF cmap[current.id] # None THEN applyInput(current, cmap[current.id])
        ELSE current

\* engine.ts:406: Array.prototype.find on the foods
RECURSIVE FindFood(_, _)
FindFood(foods, pos) ==
    IF foods = <<>> THEN <<>>
    ELSE IF Head(foods).position = pos THEN <<Head(foods)>>
    ELSE FindFood(Tail(foods), pos)

\* engine.ts:383: the agent moves this tick
willMoveOf(accumulator) == RGeqOne(accumulator)

\* engine.ts:384
newAccumulatorOf(accumulator) ==
    IF willMoveOf(accumulator) THEN RSubOne(accumulator) ELSE accumulator

\* variant in which the tail cell counts as vacated also when the agent grows
tailKeyOfAlways(snake, growth) == snake.segments[Len(snake.segments)]

\* engine.ts:410: the tail cell is vacated unless the agent grows this tick
tailKeyOf(snake, growth) ==
    IF snake.pendingGrowth + growth > 0 THEN NoCell ELSE snake.segments[Len(snake.segments)]

\* engine.ts:366-425
ProposeMove(snake, st) ==
    IF ~snake.alive
    THEN [snake |-> snake, willMove |-> FALSE, direction |-> snake.direction,
          nextHead |-> NoCell, growth |-> 0, ateFoodId |-> NoFood,
          effectTemplate |-> NoEffect, newAccumulator |-> snake.accumulator,
          pendingTurn |-> snake.pendingTurn, collided |-> TRUE, reason |-> "body",
          tailKey |-> NoCell]
    ELSE
      Pick({Pick({Pick({Pick({Pick({Pick({Pick({Pick({
          IF ~willMove
          THEN [snake |-> snake, willMove |-> FALSE, direction |-> turn.direction,
                nextHead |-> NoCell, growth |-> 0, ateFoodId |-> NoFood,
                effectTemplate |-> NoEffect, newAccumulator |-> newAccumulator,
                pendingTurn |-> turn.pendingTurn, collided |-> FALSE, reason |-> None,
                tailKey |-> NoCell]
          ELSE [snake |-> snake, willMove |-> TRUE, direction |-> turn.direction,
                nextHead |-> nextHead, growth |-> growth,
                ateFoodId |-> IF found # <<>> THEN found[1].id ELSE NoFood,
                effectTemplate |-> IF found # <<>> THEN found[1].effect ELSE NoEffect,
                newAccumulator |-> newAccumulator,
                pendingTurn |-> turn.pendingTurn, collided |-> FALSE, reason |-> None,
                tailKey |-> tailKeyOf(snake, growth)]
      : growth \in {IF found # <<>> THEN found[1].growth ELSE 0}})
      : found \in {FindFood(st.foods, nextHead)}})
      : nextHead \in {nextPosition(snake.segments[1], turn.direction)}})
      : newAccumulator \in {newAccumulatorOf(accumulator)}})
      : willMove \in {willMoveOf(accumulator)}})
      : accumulator \in {RAdd(snake.accumulator, effectiveSpeed)}})
      : effectiveSpeed \in {RMul(snake.speed, getSpeedMultiplier(snake.effects))}})
      : turn \in {maybeTurn(snake)}})

\* Map.get by agent id (safeLookup, snakeLookup, moveBySnake): the entry set last
LastIndexOf(snakes, id) == SetMax({i \in 1..Len(snakes) : snakes[i].id = id})

\* variant in which an agent's own body is an obstacle like any other
OwnBodyNever(occupant, id) == FALSE

\* engine.ts:447-449: the cell is recorded under the mover itself
OwnBody(occupant, id) == occupant = id

\* variant in which only the safety of the mover cancels the body contact
SafetyOverridesMover(moverSafe, occupantSafe) == moverSafe

\* engine.ts:453-458: safety of either side cancels the body contact
SafetyOverrides(moverSafe, occupantSafe) == moverSafe \/ occupantSafe

\* engine.ts:462-469
IsHeadOn(move, otherMove, occupantSnake) ==
    /\ occupantSnake.segments[1] = move.nextHead
    /\ otherMove.willMove
    /\ otherMove.nextHead # NoCell
    /\ otherMove.nextHead = move.snake.segments[1]

\* engine.ts:475
OtherTailVacates(otherMove, key) == otherMove.willMove /\ otherMove.tailKey = key

\* engine.ts:431-481: the boundary and occupancy check of one proposed move
CheckMove(i, moves, snakes, st) ==
    Pick({Pick({Pick({
        IF ~move.willMove \/ move.collided \/ nextHead = NoCell THEN move
        ELSE IF ~InGrid(nextHead, st.config)
             THEN [move EXCEPT !.collided = TRUE, !.reason = "wall"]
        ELSE Pick({
             IF occupant = None \/ OwnBody(occupant, snake.id) THEN move
             ELSE Pick({Pick({Pick({Pick({
                      IF SafetyOverrides(isSnakeSafe(mover, st.tick),
                                         isSnakeSafe(occupantSnake, st.tick))
                      THEN move
                      ELSE IF IsHeadOn(move, otherMove, occupantSnake) THEN move
                      ELSE IF OtherTailVacates(otherMove, nextHead) THEN move
                      ELSE [move EXCEPT !.collided = TRUE, !.reason = "body"]
                  : otherMove \in {moves[k]}})
                  : occupantSnake \in {snakes[k]}})
                  : mover \in {snakes[LastIndexOf(snakes, snake.id)]}})
                  : k \in {LastIndexOf(snakes, occupant)}})
             : occupant \in {Occupant(snakes, nextHead)}})
    : nextHead \in {move.nextHead}})
    : snake \in {move.snake}})
    : move \in {moves[i]}})

\* engine.ts:483-492: the moves that enter the head-on grouping
InContestMap(move) == move.willMove /\ ~move.collided /\ move.nextHead # NoCell

\* variant of the contest in which only the strictly shorter contestants lose
HeadOnLosesShorter(i, interactive, moves) ==
    Pick({
        Len(moves[i].snake.segments) < maxLength
    : maxLength \in {SetMax({Len(moves[j].snake.segments) : j \in interactive})}})

\* engine.ts:503-520: the contestant of index i loses the contest among the
\* interactive indices
HeadOnLoses(i, interactive, moves) ==
    Pick({Pick({
        ~(Cardinality(winners) = 1 /\ i \in winners)
    : winners \in {{j \in interactive : Len(moves[j].snake.segments) = maxLength}}})
    : maxLength \in {SetMax({Len(moves[j].snake.segments) : j \in interactive})}})

\* engine.ts:494-521: head-on resolution of one proposed move
ResolveHeadOn(i, moves, snakes, st) ==
    Pick({
        IF ~InContestMap(move) THEN move
        ELSE
          Pick({Pick({
              IF Cardinality(group) <= 1 THEN move
              ELSE IF Cardinality(interactive) <= 1 THEN move
              ELSE IF i \in interactive /\ HeadOnLoses(i, interactive, moves)
                   THEN [move EXCEPT !.collided = TRUE, !.reason = "head"]
              ELSE move
          : interactive \in {{j \in group :
                  ~isSnakeSafe(snakes[LastIndexOf(snakes, moves[j].snake.id)], st.tick)}}})
          : group \in {{j \in 1..Len(moves) :
                  InContestMap(moves[j]) /\ moves[j].nextHead = move.nextHead}}})
    : move \in {moves[i]}})

\* variant of the growth step that never spends the pending growth
GrowthStepNoSpend(snake, move) ==
    Pick({Pick({
        IF pendingGrowth > 0
        THEN [segments |-> newSegments, pendingGrowth |-> pendingGrowth]
        ELSE [segments |-> SubSeq(newSegments, 1, Len(newSegments) - 1),
              pendingGrowth |-> pendingGrowth]
    : pendingGrowth \in {snake.pendingGrowth + move.growth}})
    : newSegments \in {<<move.nextHead>> \o snake.segments}})

\* variant of the growth step that drops two cells of the tail when not growing
GrowthStepTrim(snake, move) ==
    Pick({Pick({
        IF pendingGrowth > 0
        THEN [segments |-> newSegments, pendingGrowth |-> pendingGrowth - 1]
        ELSE [segments |-> SubSeq(newSegments, 1, Len(newSegments) - 2),
              pendingGrowth |-> pendingGrowth]
    : pendingGrowth \in {snake.pendingGrowth + move.growth}})
    : newSegments \in {<<move.nextHead>> \o snake.segments}})

\* engine.ts:557-563: segments and pendingGrowth after a successful move
GrowthStep(snake, move) ==
    Pick({Pick({
        IF pendingGrowth > 0
        THEN [segments |-> newSegments, pendingGrowth |-> pendingGrowth - 1]
        ELSE [segments |-> SubSeq(newSegments, 1, Len(newSegments) - 1),
              pendingGrowth |-> pendingGrowth]
    : pendingGrowth \in {snake.pendingGrowth + move.growth}})
    : newSegments \in {<<move.nextHead>> \o snake.segments}})

\* engine.ts:565-574
EffectsAfter(snake, move, st) ==
    IF move.effectTemplate.type # None
    THEN Append(snake.effects,
                [type |-> move.effectTemplate.type,
                 multiplier |-> move.effectTemplate.multiplier,
                 expiresAtTick |-> st.tick + move.effectTemplate.duration])
    ELSE snake.effects

\* engine.ts:523-585: the agent after the tick
ApplyMove(move, st) ==
    Pick({
        IF ~snake.alive THEN snake
        ELSE IF ~move.willMove
             THEN [snake EXCEPT !.direction = move.direction,
                                !.pendingTurn = move.pendingTurn,
                                !.accumulator = move.newAccumulator]
        ELSE IF move.collided
             THEN [snake EXCEPT !.alive = FALSE,
                                !.pendingTurn = None,
                                !.accumulator = RZero,
                                !.pendingGrowth = 0,
                                !.effects = <<>>,
                                !.safeUntilTick = st.tick]
        ELSE Pick({
                 [snake EXCEPT !.segments = grown.segments,
                               !.direction = move.direction,
                               !.pendingTurn = move.pendingTurn,
                               !.accumulator = move.newAccumulator,
                               !.pendingGrowth = grown.pendingGrowth,
                               !.effects = EffectsAfter(snake, move, st)]
             : grown \in {GrowthStep(snake, move)}})
    : snake \in {move.snake}})

\* variant of the tickets that queues every eliminated agent, the player too
TicketsToAddAnyone(moves) ==
    LET hit == SelectSeqBy(moves, {m \in Range(moves) :
                                     m.snake.alive /\ m.willMove /\ m.collided})
    IN  [k \in 1..Len(hit) |->
            [snakeId |-> hit[k].snake.id, controller |-> hit[k].snake.controller,
             ticksRemaining |-> RESPAWN_DELAY_TICKS]]

\* variant of the tickets that starts the countdown one tick short
TicketsToAddShort(moves) ==
    LET hit == SelectSeqBy(moves, {m \in Range(moves) :
                                     /\ m.snake.alive /\ m.willMove /\ m.collided
                                     /\ m.snake.controller = "ai"})
    IN  [k \in 1..Len(hit) |->
            [snakeId |-> hit[k].snake.id, controller |-> hit[k].snake.controller,
             ticksRemaining |-> RESPAWN_DELAY_TICKS - 1]]

\* engine.ts:538-545: the tickets of the AI agents eliminated this tick
RECURSIVE TicketsToAdd(_)
TicketsToAdd(moves) ==
    IF moves = <<>> THEN <<>>
    ELSE Pick({Pick({
             (IF move.snake.alive /\ move.willMove /\ move.collided
                    /\ move.snake.controller = "ai"
              THEN <<[snakeId |-> move.snake.id, controller |-> move.snake.controller,
                      ticksRemaining |-> RESPAWN_DELAY_TICKS]>>
              ELSE <<>>) \o TicketsToAdd(rest)
         : rest \in {Tail(moves)}})
         : move \in {Head(moves)}})

\* engine.ts:588: a food goes when any proposed move recorded its id
foodsAfterEatOf(foods, moves) ==
    SelectSeqBy(foods, {f \in Range(foods) :
                          ~\E j \in 1..Len(moves) : moves[j].ateFoodId = f.id})

\* variant of the fit test that looks at the board only
FitsOnBoard(candidate, occupied, config) ==
    \A k \in 1..Len(candidate.segments) : InGrid(candidate.segments[k], config)

\* engine.ts:628-639
Fits(candidate, occupied, config) ==
    \A k \in 1..Len(candidate.segments) :
        InGrid(candidate.segments[k], config) /\ candidate.segments[k] \notin occupied

\* variant of the placement that tries the layout at startIndex only
TryLayoutsFirstOnly(i, startIndex, layouts, ticket, occupied, config, nextTick) ==
    Pick({Pick({
        IF Fits(candidate, occupied, config) THEN <<candidate>> ELSE <<>>
    : candidate \in {buildSnake(ticket.snakeId, layout.head, layout.direction,
                                ticket.controller, nextTick + SAFE_RESPAWN_TICKS)}})
    : layout \in {layouts[(startIndex % Len(layouts)) + 1]}})

\* engine.ts:619-644: layouts tried in rotation from startIndex; <<>> if none fits
RECURSIVE TryLayouts(_, _, _, _, _, _, _)
TryLayouts(i, startIndex, layouts, ticket, occupied, config, nextTick) ==
    IF i >= Len(layouts) THEN <<>>
    ELSE Pick({Pick({Pick({
             IF Fits(candidate, occupied, config) THEN <<candidate>>
             ELSE TryLayouts(next, startIndex, layouts, ticket, occupied, config, nextTick)
         : next \in {i + 1}})
         : candidate \in {buildSnake(ticket.snakeId, layout.head, layout.direction,
                                     ticket.controller, nextTick + SAFE_RESPAWN_TICKS)}})
         : layout \in {layouts[((startIndex + i) % Len(layouts)) + 1]}})

\* variant of the re-armed ticket that starts the full delay again
RearmTicketDelay(ticket) == [ticket EXCEPT !.ticksRemaining = RESPAWN_DELAY_TICKS]

\* engine.ts:651: the ticket of a failed placement
RearmTicket(ticket) == [ticket EXCEPT !.ticksRemaining = 1]

\* engine.ts:602-653: the forEach over the combined queue
RECURSIVE ProcessQueue(_, _, _, _, _, _, _)
ProcessQueue(queue, layouts, config, nextTick, occupied, rng, acc) ==
    IF queue = <<>> THEN [respawned |-> acc.respawned, queue |-> acc.queue, rng |-> rng]
    ELSE
      Pick({Pick({Pick({Pick({
          IF ticket.controller # "ai"
          THEN ProcessQueue(rest, layouts, config, nextTick, occupied, rng,
                            IF remaining > 0 THEN waiting ELSE acc)
          ELSE IF remaining > 0
          THEN ProcessQueue(rest, layouts, config, nextTick, occupied, rng, waiting)
          ELSE
            Pick({Pick({Pick({
                IF spawned # <<>>
                THEN Pick({Pick({
                         ProcessQueue(rest, layouts, config, nextTick, occupied1, rng1, acc1)
                     : acc1 \in {[acc EXCEPT !.respawned = Append(@, spawned[1])]}})
                     : occupied1 \in {occupied \cup Range(spawned[1].segments)}})
                ELSE Pick({
                         ProcessQueue(rest, layouts, config, nextTick, occupied, rng1, acc1)
                     : acc1 \in {[acc EXCEPT !.queue = Append(@, RearmTicket(ticket))]}})
            : spawned \in {TryLayouts(0, startIndex, layouts, ticket, occupied, config,
                                      nextTick)}})
            : startIndex \in {FloorMul(RngOutput(rng1), Len(layouts))}})
            : rng1 \in {RngAdvance(rng)}})
      : waiting \in {[acc EXCEPT !.queue =
                          Append(@, [ticket EXCEPT !.ticksRemaining = remaining])]}})
      : remaining \in {ticket.ticksRemaining - 1}})
      : rest \in {Tail(queue)}})
      : ticket \in {Head(queue)}})

\* variant of the status rule that ends the run only when no agent is left
statusOfEmptyOnly(allSnakes) ==
    IF Len(allSnakes) = 0 THEN "gameover" ELSE "running"

\* engine.ts:669-671
statusOf(allSnakes) ==
    IF Len(allSnakes) = 0 \/ ~\E i \in 1..Len(allSnakes) : allSnakes[i].controller = "player"
    THEN "gameover"
    ELSE "running"

\* variant of the tick counter that counts one tick per agent of the state
nextTickPerAgent(st) == st.tick + Len(st.snakes)

\* engine.ts:591
nextTickOf(st) == st.tick + 1

\* engine.ts:314-679: one running tick; the resolved proposed moves are kept
\* beside the state returned
\* variant of allSnakes that lists the respawned agents first
allSnakesRespawnedFirst(survivors, respawnedSnakes) == respawnedSnakes \o survivors

\* engine.ts:655
allSnakesOf(survivors, respawnedSnakes) == survivors \o respawnedSnakes

AdvanceRunning(st, commands) ==
    Pick({Pick({Pick({Pick({Pick({Pick({Pick({Pick({Pick({
    Pick({Pick({Pick({Pick({Pick({Pick({Pick({Pick({Pick({
        [state |-> [withFood EXCEPT !.snakes = allSnakes,
                                    !.respawnQueue = processed.queue,
                                    !.status = statusOf(allSnakes)],
         moves |-> moves,
         ran |-> TRUE]
    : withFood \in {replenishFood(nextBase, processed.rng)}})
    : nextBase \in {[st EXCEPT !.snakes = allSnakes,
                               !.foods = foodsAfterEat,
                               !.tick = nextTick,
                               !.rngState = processed.rng,
                               !.respawnQueue = processed.queue]}})
    : allSnakes \in {allSnakesOf(survivors, processed.respawned)}})
    : processed \in {ProcessQueue(combinedQueue, layouts, st.config, nextTick, occupied,
                                  filled.rng, nothing)}})
    : nothing \in {[respawned |-> <<>>, queue |-> <<>>]}})
    : occupied \in {OccupiedCells(survivors, foodsAfterEat)}})
    : layouts \in {createSpawnPoints(st.config)}})
    : nextTick \in {nextTickOf(st)}})
    : combinedQueue \in {st.respawnQueue \o TicketsToAdd(moves)}})
    : foodsAfterEat \in {foodsAfterEatOf(st.foods, moves)}})
    : survivors \in {SelectSeqBy(nextSnakes, {x \in Range(nextSnakes) : x.alive})}})
    : nextSnakes \in {AsSeq([i \in 1..Len(snakes) |-> ApplyMove(moves[i], st)])}})
    : moves \in {AsSeq([i \in 1..Len(snakes) |-> ResolveHeadOn(i, checked, snakes, st)])}})
    : checked \in {AsSeq([i \in 1..Len(snakes) |-> CheckMove(i, proposed, snakes, st)])}})
    : proposed \in {AsSeq([i \in 1..Len(snakes) |-> ProposeMove(snakes[i], st)])}})
    : snakes \in {AsSeq([i \in 1..Len(st.snakes) |->
                        PrepareSnake(st.snakes[i], st, filled.cmap)])}})
    : filled \in {AiBackfill(1, st, cmap0, st.rngState)}})
    : cmap0 \in {BuildCommandMap(commands, [id \in AllIds |-> None])}})

\* variant of advanceState without the early return on a finished run
AdvanceDetailNoReturn(st, commands) == AdvanceRunning(st, commands)

\* engine.ts:309-312 and the rest of advanceState
AdvanceDetail(st, commands) ==
    IF st.status # "running"
    THEN [state |-> st, moves |-> <<>>, ran |-> FALSE]
    ELSE AdvanceRunning(st, commands)

\* engine.ts:309-679
advanceState(st, commands) == AdvanceDetail(st, commands).state

(***************************************************************************)
(* The state machine: runs of advanceState calls from states built by       *)
(* createInitialState                                                       *)
(***************************************************************************)
VARIABLES
    tick, config, snakes, foods, rngState, status, respawnQueue,  \* GameState
    prev,           \* <<the state the last advanceState call received>>, or <<>>
    lastMoves,      \* the resolved proposed moves of the last running call
    boostLog,       \* per agent id <<calls made while it held a speedBoost,
                    \*                cells it advanced in those calls>>
    noCommandsYet,  \* the run started at createInitialState and no call carried a command
    script,         \* for each of the next calls, the command lists it may carry
    callsLeft,      \* advanceState calls the run may make once the script is over
    cmdsLeft,       \* of which calls that may carry commands
    listLen,        \* longest command list such a call may carry
    requested,      \* the config passed to createInitialState
    lastCommands,   \* the command list passed to the last advanceState call
    diedAt,         \* per agent id the tick of the call that last eliminated it, or Never
    \* useGameEngine and its frame loop; there the GameState variables above are
    \* stateRef.current and `requested` is configRef.current
    queue,          \* queueRef.current, each command with a number n that tells it from the others queued
    loopReset,      \* loopResetRef.current
    accumulator,    \* createFrameLoop: accumulator, in milliseconds
    rendered,       \* <<the state of the last committed render>>
    pendingState,   \* <<the last value passed to setState>> while no render has taken it
    pendingSync,    \* <<the state a committed render captured>> while its effect has not run
    latest,         \* <<the snapshot of the last resolver call, restart or config change>>
    frameLog,       \* the resolver calls of the last frame: given, expected, commands, returned
    queueAtFrame,   \* the queue when the last frame began
    frameFirst,     \* the last frame was the first since the last restart or config change
    sinceReset,     \* a frame has run since the last restart or config change
    lastStep,       \* the handler that ran last
    framesLeft,     \* frames the run may still make
    keysLeft,       \* enqueueTurn calls the run may still make
    restartsLeft    \* restart() calls and config changes the run may still make

gameVars == <<tick, config, snakes, foods, rngState, status, respawnQueue>>
observerVars == <<prev, lastMoves, boostLog, noCommandsYet, script, callsLeft, cmdsLeft, listLen,
                  lastCommands, diedAt>>
loopVars == <<queue, loopReset, accumulator, rendered, pendingState, pendingSync, latest,
              frameLog, queueAtFrame, frameFirst, sinceReset, lastStep,
              framesLeft, keysLeft, restartsLeft>>
vars == <<tick, config, snakes, foods, rngState, status, respawnQueue,
          prev, lastMoves, boostLog, noCommandsYet, script, callsLeft, cmdsLeft, listLen,
          requested, lastCommands, diedAt,
          queue, loopReset, accumulator, rendered, pendingState, pendingSync, latest,
          frameLog, queueAtFrame, frameFirst, sinceReset, lastStep,
          framesLeft, keysLeft, restartsLeft>>

\* types.ts:52-61
State ==
    [tick |-> tick, config |-> config, snakes |-> snakes, foods |-> foods,
     rngState |-> rngState, status |-> status, respawnQueue |-> respawnQueue]

\* Bounds of the runs explored
DuelCalls == 2
DuelCmdCalls == 1
DuelCommands == 1
SoloCalls == 6
SoloCmdCalls == 2
SoloCommands == 2
LongCalls == 31
AfterCalls == 2
ClampCalls == 1

Config(c, r, sd, n) == [cols |-> c, rows |-> r, tickRate |-> 10, seed |-> sd, aiCount |-> n]

Turn(id, d) == [snakeId |-> id, direction |-> d]

\* A run starts at createInitialState(config). Its script gives, for each of
\* its first calls, the command lists the call may carry; then come `calls`
\* further calls, `cmdCalls` of them with any command list of at most
\* `listLen` commands.
FreshRuns ==
    {[config |-> Config(9, 8, sd, 1), script |-> <<>>, calls |-> DuelCalls,
      cmdCalls |-> DuelCmdCalls, listLen |-> DuelCommands] : sd \in {1, 11}}
    \cup
    {[config |-> Config(8, 8, sd, 0), script |-> <<>>, calls |-> SoloCalls,
      cmdCalls |-> SoloCmdCalls, listLen |-> SoloCommands] : sd \in {42, 44}}
    \cup
    {[config |-> Config(32, 24, sd, 0), script |-> <<>>, calls |-> LongCalls,
      cmdCalls |-> 0, listLen |-> 0] : sd \in {1, 16}}

\* Scripted run on the 9x9 board with two AI agents: the player and ai-1 eat
\* two foods each, ai-2 none, and the three heads come to stand around the
\* cell (5, 1); the last call carries any of the listed command lists.
Meet(d0, d1, d2) == <<Turn("player", d0), Turn("ai-1", d1), Turn("ai-2", d2)>>

MeetingScript ==
    << {Meet("up", "up", "left")},
       {Meet("up", "right", "up")},
       {Meet("left", "right", "left")},
       {Meet("up", "right", "up")},
       {Meet("right", "up", "right")},
       {Meet("down", "left", "up")},
       {Meet("right", "left", "right")},
       {Meet("right", "left", "up"), Meet("up", "left", "up"), Meet("down", "left", "up"),
        Meet("right", "left", "right"), Meet("right", "up", "up"),
        <<Turn("player", "up"), Turn("player", "right")>>, <<>>} >>

\* Scripted runs on the 8x8 board with one AI agent: ai-1 runs into the
\* player's head cell in the first call and respawns after
\* RESPAWN_DELAY_TICKS calls, while the player laps a 2x2 block; after its
\* respawn ai-1 is steered by the script.
Circle == <<"left", "down", "right", "up">>

Lap(k) == Turn("player", Circle[((k - 1) % 4) + 1])

RespawnPrefix ==
    <<{<<Turn("player", "up"), Turn("ai-1", "left")>>}>>
        \o [k \in 1..(RESPAWN_DELAY_TICKS - 1) |-> {<<Lap(k)>>}]

Steered(aiTurns) ==
    [k \in 1..Len(aiTurns) |-> {<<Lap(RESPAWN_DELAY_TICKS - 1 + k), Turn("ai-1", aiTurns[k])>>}]

\* ai-1 enters the player's block in the last call of its safe window and
\* moves on inside it in the next call
WindowScript ==
    RespawnPrefix
        \o Steered(<<"up", "up", "up", "left", "down", "down", "down", "left", "left", "up",
                     "right", "down">>)
        \o <<{<<Lap(RESPAWN_DELAY_TICKS + SAFE_RESPAWN_TICKS), Turn("ai-1", d)>> : d \in {"right", "down", "left"}}>>

\* ai-1 heads for the top wall right after its respawn
WallScript == RespawnPrefix \o Steered(<<"up", "up", "up", "up">>)

\* On the 8x8 board the player at (3, 3) heading right and ai-1 at (4, 3)
\* heading left start head to head; ai-1 is told to keep its direction.
SwapScript == <<{<<Turn("ai-1", "left")>>}>>

\* ai-1 runs into the player in the second call and respawns at (4, 3) one
\* call later than in the runs above, two cells from the player's head at
\* (2, 3): within its window it meets the player on (3, 3), and in the next
\* call the player moves on into the body of ai-1.
ContestScript ==
    <<{<<Turn("player", "up"), Turn("ai-1", "up")>>},
      {<<Turn("player", "left"), Turn("ai-1", "left")>>}>>
        \o [k \in 1..(RESPAWN_DELAY_TICKS - 1) |-> {<<Lap(k)>>}]
        \o <<{<<Turn("player", "right"), Turn("ai-1", "left")>>},
              {<<Turn("player", "right"), Turn("ai-1", "up")>>}>>

\* ai-1 comes up behind the player and enters its tail cell (3, 3) in the
\* third call, in which the player either eats the food on (4, 5) or goes on
\* down without eating.
TailScript ==
    <<{<<Turn("player", "down"), Turn("ai-1", "up")>>},
      {<<Turn("player", "down"), Turn("ai-1", "left")>>},
      {<<Turn("player", "right"), Turn("ai-1", "down")>>,
       <<Turn("player", "down"), Turn("ai-1", "down")>>}>>

\* On the 8x8 board with seed 31 a bulk food lies on (4, 3), right ahead of
\* the lone player: it eats, grows for three calls and turns through a 2x2
\* block back onto (3, 3), a cell its body still holds.
LoopScript ==
    <<{<<Turn("player", "right")>>}, {<<Turn("player", "up")>>},
      {<<Turn("player", "left")>>}, {<<Turn("player", "down")>>}>>

\* ai-1 is eliminated in the first call. The player eats the food on (4, 5),
\* is 4 cells long, and from tick 10 on laps the block (3..4, 3..4), which
\* cuts all six spawn layouts of the 8x8 board: the ticket of ai-1 runs out
\* in the call made at tick 23 and is retried until the player leaves the
\* block in the call made at tick 27.
Alone(directions) == [k \in 1..Len(directions) |-> {<<Turn("player", directions[k])>>}]

Block == <<"left", "up", "right", "down">>

RetryScript ==
    <<{<<Turn("player", "up"), Turn("ai-1", "left")>>}>>
        \o Alone(<<"right", "down", "down", "down", "left", "up", "up", "right", "down">>)
        \o Alone(Block \o Block \o Block \o Block)
        \o Alone(<<"left", "left">>)

\* On the 8x8 board with two AI agents ai-1 runs into the player in the first
\* call, in which ai-2 either starts lapping the block (4..5, 4..5) or runs
\* into ai-1 and is eliminated too; the tickets run out in the call made at
\* tick 23, in which the player eats the food on (1, 1) and ai-2 is left to
\* its policy.
Ai2Circle == <<"down", "right", "up", "left">>

OrderScript ==
    <<{<<Turn("player", "up"), Turn("ai-1", "left"), Turn("ai-2", d)>> : d \in {"down", "up"}}>>
        \o [k \in 1..(RESPAWN_DELAY_TICKS - 3) |->
               {<<Lap(k), Turn("ai-2", Ai2Circle[(k % 4) + 1])>>}]
        \o <<{<<Turn("player", "up"), Turn("ai-2", "up")>>},
              {<<Turn("player", "left")>>}>>

\* ai-1 is steered along the top wall into the corner (0, 0) while the
\* player comes to stand on (0, 1) below it; the last call leaves ai-1 to its
\* policy.
CornerScript ==
    <<{<<Turn("player", "up"), Turn("ai-1", "up")>>},
      {<<Turn("player", "up"), Turn("ai-1", "up")>>},
      {<<Turn("player", "left"), Turn("ai-1", "up")>>},
      {<<Turn("player", "left"), Turn("ai-1", "left")>>},
      {<<Turn("player", "down"), Turn("ai-1", "left")>>},
      {<<Turn("player", "left"), Turn("ai-1", "left")>>},
      {<<Turn("player", "up"), Turn("ai-1", "left")>>},
      {<<Turn("player", "right")>>}>>

ScriptedRuns ==
    {[config |-> Config(9, 9, 12, 2), script |-> MeetingScript, calls |-> AfterCalls,
      cmdCalls |-> 0, listLen |-> 0]}
    \cup
    {[config |-> Config(8, 8, 1, 1), script |-> sc, calls |-> AfterCalls,
      cmdCalls |-> 0, listLen |-> 0] :
        sc \in {WindowScript, WallScript, SwapScript, ContestScript, TailScript,
                RetryScript, CornerScript}}
    \cup
    {[config |-> Config(8, 8, 31, 0), script |-> LoopScript, calls |-> AfterCalls,
      cmdCalls |-> 0, listLen |-> 0]}
    \cup
    {[config |-> Config(8, 8, 1, 2), script |-> OrderScript, calls |-> AfterCalls,
      cmdCalls |-> 0, listLen |-> 0]}

\* Runs from configs whose fields lie below, inside and above their ranges.
\* With seed 14 the first cell the food placement draws on the 8x8 board is
\* (3, 3), the cell of the player's head.
ClampRuns ==
    {[config |-> [cols |-> c, rows |-> r, tickRate |-> t, seed |-> sd, aiCount |-> n],
      script |-> <<>>, calls |-> ClampCalls, cmdCalls |-> 0, listLen |-> 0] :
        c \in {-3, 7, 8}, r \in {0, 9}, t \in {0, 1}, n \in {-1, 5}, sd \in {5, 14}}

Runs == FreshRuns \cup ScriptedRuns \cup ClampRuns

\* types.ts:63-67: the turn commands addressed to the agents of the state
Commands(st) ==
    {Turn(st.snakes[i].id, d) : i \in 1..Len(st.snakes), d \in Directions}

CommandLists(st, n) ==
    UNION {[1..k -> Commands(st)] : k \in 0..n}

\* the observer of the eliminations: the tick of the call in which the agent
\* of an id last collided
Never == -1

DiedAtAfter(log, moves, t) ==
    [id \in AllIds |->
        IF \E j \in 1..Len(moves) :
              moves[j].snake.id = id /\ moves[j].willMove /\ moves[j].collided
        THEN t ELSE log[id]]

SetState(st) ==
    /\ tick = st.tick
    /\ config = st.config
    /\ snakes = st.snakes
    /\ foods = st.foods
    /\ rngState = st.rngState
    /\ status = st.status
    /\ respawnQueue = st.respawnQueue

\* the hook is not mounted: the runs below call advanceState directly
NoLoop ==
    /\ queue = <<>>
    /\ loopReset = FALSE
    /\ accumulator = 0
    /\ rendered = <<>>
    /\ pendingState = <<>>
    /\ pendingSync = <<>>
    /\ latest = <<>>
    /\ frameLog = <<>>
    /\ queueAtFrame = <<>>
    /\ frameFirst = FALSE
    /\ sinceReset = FALSE
    /\ lastStep = "none"
    /\ framesLeft = 0
    /\ keysLeft = 0
    /\ restartsLeft = 0

Init ==
    \E run \in Runs :
      \E st \in {createInitialState(run.config)} :
        /\ SetState(st)
        /\ NoLoop
        /\ prev = <<>>
        /\ lastMoves = <<>>
        /\ boostLog = [id \in AllIds |-> <<0, 0>>]
        /\ diedAt = [id \in AllIds |-> Never]
        /\ noCommandsYet = TRUE
        /\ script = run.script
        /\ callsLeft = run.calls
        /\ cmdsLeft = run.cmdCalls
        /\ listLen = run.listLen
        /\ requested = run.config
        /\ lastCommands = <<>>

\* the observer of the speed boosts: an agent that went through the call with
\* an active speedBoost counts the call, and the cell if it advanced
BoostLogAfter(log, moves) ==
    [id \in AllIds |->
        LET held == {j \in 1..Len(moves) :
                        /\ moves[j].snake.id = id
                        /\ moves[j].snake.effects # <<>>
                        /\ ~(moves[j].willMove /\ moves[j].collided)}
        IN  IF held = {} THEN <<0, 0>>
            ELSE <<log[id][1] + 1,
                   log[id][2] + (IF \E j \in held : moves[j].willMove THEN 1 ELSE 0)>>]

\* one call advanceState(State, commands) and what the observers record of it
Call(commands) ==
    /\ \E st \in {State} : \E d \in {AdvanceDetail(st, commands)} :
           /\ tick' = d.state.tick
           /\ config' = d.state.config
           /\ snakes' = d.state.snakes
           /\ foods' = d.state.foods
           /\ rngState' = d.state.rngState
           /\ status' = d.state.status
           /\ respawnQueue' = d.state.respawnQueue
           /\ prev' = <<st>>
           /\ lastMoves' = d.moves
           /\ boostLog' = IF d.ran THEN BoostLogAfter(boostLog, d.moves) ELSE boostLog
           /\ diedAt' = IF d.ran THEN DiedAtAfter(diedAt, d.moves, st.tick) ELSE diedAt
    /\ noCommandsYet' = (noCommandsYet /\ commands = <<>>)
    /\ lastCommands' = commands
    /\ UNCHANGED requested
    /\ UNCHANGED loopVars

\* a call of advanceState with a list the script gives for the call
ScriptedAdvance ==
    /\ script # <<>>
    /\ \E commands \in Head(script) : Call(commands)
    /\ script' = Tail(script)
    /\ UNCHANGED <<callsLeft, cmdsLeft, listLen>>

\* a call of advanceState with any command list within the bounds of the run
Advance ==
    /\ script = <<>>
    /\ callsLeft > 0
    /\ \E commands \in CommandLists(State, IF cmdsLeft > 0 THEN listLen ELSE 0) :
          /\ Call(commands)
          /\ cmdsLeft' = IF commands # <<>> THEN cmdsLeft - 1 ELSE cmdsLeft
    /\ callsLeft' = callsLeft - 1
    /\ UNCHANGED <<script, listLen>>

Next == ScriptedAdvance \/ Advance

Spec == Init /\ [][Next]_vars

\* what a call of either kind does to the calls the run has left
CallCounted ==
    \/ script # <<>> /\ script' = Tail(script) /\ callsLeft' = callsLeft
    \/ script = <<>> /\ callsLeft > 0 /\ script' = script /\ callsLeft' = callsLeft - 1

\* the frame loop keeps calling advanceState while the run has calls left
LiveSpec == Spec /\ WF_<<script, callsLeft>>(CallCounted)

(***************************************************************************)
(* useGameEngine: the hook, its frame loop, and React's renders and effects *)
(* Every handler runs to completion: a frame, an enqueueTurn, a restart, a  *)
(* render and the run of a committed effect are the steps that interleave.  *)
(***************************************************************************)
\* Bounds of the runs of the hook
MaxFrames == 4
MaxKeys == 5
MaxRestarts == 1

\* now - previous at a frame, in milliseconds
Elapsed == {50, 250}

\* the directions of the keys pressed
Keys == {"up"}

\* the configOverride values the hook is given
Overrides ==
    {[cols |-> 8, rows |-> 8, tickRate |-> t, aiCount |-> 0] : t \in {10, 8}}

FirstOverride == [cols |-> 8, rows |-> 8, tickRate |-> 10, aiCount |-> 0]

\* part_002:51,73: { ...defaultConfig, ...configOverride }
Merged(configOverride) ==
    [defaultConfig EXCEPT !.cols = configOverride.cols,
                          !.rows = configOverride.rows,
                          !.tickRate = configOverride.tickRate,
                          !.aiCount = configOverride.aiCount]

\* part_002:29
targetDeltaOf(cfg) == 1000 \div cfg.tickRate

\* part_002:94
QueueCap == 4

\* variant of clearQueue that keeps the oldest commands
clearQueueOldest(q) ==
    IF Len(q) > QueueCap THEN SubSeq(q, 1, QueueCap) ELSE q

\* part_002:93-97
clearQueue(q) ==
    IF Len(q) > QueueCap THEN SubSeq(q, Len(q) - QueueCap + 1, Len(q)) ELSE q

\* part_002:59: the command pushed, without its serial number
Plain(commands) ==
    [k \in 1..Len(commands) |-> Turn(commands[k].snakeId, commands[k].direction)]

\* part_002:18-26: the accumulator when the while loop begins
AccumulatorAtFrame(reset, acc, dt) == IF reset THEN 0 ELSE acc + dt

\* variant of the loop that goes on after a state that is not running
RECURSIVE FrameLoopNoBreak(_, _, _, _, _, _)
FrameLoopNoBreak(st, commands, acc, targetDelta, expected, log) ==
    IF acc < targetDelta THEN [state |-> st, accumulator |-> acc, log |-> log]
    ELSE
      Pick({Pick({Pick({
          FrameLoopNoBreak(nextState, <<>>, acc - targetDelta, targetDelta, nextState, log1)
      : log1 \in {Append(log, [given |-> st, expected |-> expected,
                               commands |-> commands, returned |-> nextState])}})
      : nextState \in {advanceState(st, consumed)}})
      : consumed \in {Plain(commands)}})

\* part_002:28-39: the while loop; `commands` is the queue, emptied by the
\* splice of the first pass, `expected` the snapshot the pass should be given
RECURSIVE FrameLoop(_, _, _, _, _, _)
FrameLoop(st, commands, acc, targetDelta, expected, log) ==
    IF acc < targetDelta THEN [state |-> st, accumulator |-> acc, log |-> log]
    ELSE
      Pick({Pick({Pick({
          IF nextState.status # "running"
          THEN [state |-> nextState, accumulator |-> 0, log |-> log1]
          ELSE FrameLoop(nextState, <<>>, acc - targetDelta, targetDelta, nextState, log1)
      : log1 \in {Append(log, [given |-> st, expected |-> expected,
                               commands |-> commands, returned |-> nextState])}})
      : nextState \in {advanceState(st, consumed)}})
      : consumed \in {Plain(commands)}})

\* stateRef.current = st
StateBecomes(st) ==
    /\ tick' = st.tick
    /\ config' = st.config
    /\ snakes' = st.snakes
    /\ foods' = st.foods
    /\ rngState' = st.rngState
    /\ status' = st.status
    /\ respawnQueue' = st.respawnQueue

\* part_002:89 setState(next): React takes the last value set; a value equal
\* to the committed one with nothing pending starts no render
SetStateTo(next) ==
    IF pendingState = <<>> /\ rendered = <<next>> THEN <<>> ELSE <<next>>

\* the hook after its mount: the state is createInitialState(configRef.current),
\* the config effect has set loopResetRef, the loop is created
LoopInit ==
    \E st \in {createInitialState(Merged(FirstOverride))} :
        /\ SetState(st)
        /\ requested = Merged(FirstOverride)
        /\ prev = <<>>
        /\ lastMoves = <<>>
        /\ boostLog = [id \in AllIds |-> <<0, 0>>]
        /\ diedAt = [id \in AllIds |-> Never]
        /\ noCommandsYet = TRUE
        /\ script = <<>>
        /\ callsLeft = 0
        /\ cmdsLeft = 0
        /\ listLen = 0
        /\ lastCommands = <<>>
        /\ queue = <<>>
        /\ loopReset = TRUE
        /\ accumulator = 0
        /\ rendered = <<st>>
        /\ pendingState = <<>>
        /\ pendingSync = <<>>
        /\ latest = <<st>>
        /\ frameLog = <<>>
        /\ queueAtFrame = <<>>
        /\ frameFirst = FALSE
        /\ sinceReset = FALSE
        /\ lastStep = "mount"
        /\ framesLeft = MaxFrames
        /\ keysLeft = MaxKeys
        /\ restartsLeft = MaxRestarts

\* part_002:17-43: one animation frame
Frame ==
    /\ framesLeft > 0
    /\ framesLeft' = framesLeft - 1
    /\ \E dt \in Elapsed :
         \E run \in {FrameLoop(State, queue, AccumulatorAtFrame(loopReset, accumulator, dt),
                               targetDeltaOf(requested), latest[1], <<>>)} :
            /\ StateBecomes(run.state)
            /\ accumulator' = run.accumulator
            /\ queue' = clearQueue(IF run.log = <<>> THEN queue ELSE <<>>)
            /\ pendingState' = IF run.log = <<>> THEN pendingState ELSE SetStateTo(run.state)
            /\ latest' = IF run.log = <<>> THEN latest ELSE <<run.state>>
            /\ frameLog' = run.log
    /\ loopReset' = FALSE
    /\ queueAtFrame' = queue
    /\ frameFirst' = ~sinceReset
    /\ sinceReset' = TRUE
    /\ lastStep' = "frame"
    /\ UNCHANGED <<rendered, pendingSync, requested, keysLeft, restartsLeft>>
    /\ UNCHANGED observerVars

\* part_002:57-62
enqueueTurn ==
    /\ keysLeft > 0
    /\ keysLeft' = keysLeft - 1
    /\ \E direction \in Keys :
          queue' = Append(queue, [snakeId |-> "player", direction |-> direction,
                                  n |-> SetMax({0} \cup {queue[k].n : k \in 1..Len(queue)}) + 1])
    /\ lastStep' = "enqueueTurn"
    /\ UNCHANGED <<loopReset, accumulator, rendered, pendingState, pendingSync, latest,
                   frameLog, queueAtFrame, frameFirst, sinceReset, requested, framesLeft,
                   restartsLeft>>
    /\ UNCHANGED gameVars
    /\ UNCHANGED observerVars

\* part_002:64-70
restart ==
    /\ restartsLeft > 0
    /\ restartsLeft' = restartsLeft - 1
    /\ \E next \in {createInitialState(requested)} :
          /\ StateBecomes(next)
          /\ pendingState' = SetStateTo(next)
          /\ latest' = <<next>>
    /\ queue' = <<>>
    /\ loopReset' = TRUE
    /\ sinceReset' = FALSE
    /\ lastStep' = "restart"
    /\ UNCHANGED <<accumulator, rendered, pendingSync, frameLog, queueAtFrame, frameFirst,
                   requested, framesLeft, keysLeft>>
    /\ UNCHANGED observerVars

\* part_002:72-79: the effect of a render with another configOverride; the
\* effects of the renders before it have run
ConfigChange ==
    /\ restartsLeft > 0
    /\ restartsLeft' = restartsLeft - 1
    /\ pendingSync = <<>>
    /\ \E configOverride \in Overrides :
          /\ Merged(configOverride) # requested
          /\ requested' = Merged(configOverride)
          /\ \E next \in {createInitialState(Merged(configOverride))} :
                /\ StateBecomes(next)
                /\ pendingState' = SetStateTo(next)
                /\ latest' = <<next>>
    /\ queue' = <<>>
    /\ loopReset' = TRUE
    /\ sinceReset' = FALSE
    /\ lastStep' = "config"
    /\ UNCHANGED <<accumulator, rendered, pendingSync, frameLog, queueAtFrame, frameFirst,
                   framesLeft, keysLeft>>
    /\ UNCHANGED observerVars

\* React renders the hook with the last value set and commits it; the effect
\* of part_002:81-83 is left to run, with the state of this render
Render ==
    /\ pendingState # <<>>
    /\ pendingSync = <<>>
    /\ rendered' = pendingState
    /\ pendingSync' = IF pendingState = rendered THEN <<>> ELSE pendingState
    /\ pendingState' = <<>>
    /\ lastStep' = "render"
    /\ UNCHANGED <<queue, loopReset, accumulator, latest, frameLog, queueAtFrame, frameFirst,
                   sinceReset, requested, framesLeft, keysLeft, restartsLeft>>
    /\ UNCHANGED gameVars
    /\ UNCHANGED observerVars

\* part_002:81-83: stateRef.current = state
SyncEffect ==
    /\ pendingSync # <<>>
    /\ StateBecomes(pendingSync[1])
    /\ pendingSync' = <<>>
    /\ lastStep' = "effect"
    /\ UNCHANGED <<queue, loopReset, accumulator, rendered, pendingState, latest, frameLog,
                   queueAtFrame, frameFirst, sinceReset, requested, framesLeft, keysLeft,
                   restartsLeft>>
    /\ UNCHANGED observerVars

LoopNext == Frame \/ enqueueTurn \/ restart \/ ConfigChange \/ Render \/ SyncEffect

LoopSpec == LoopInit /\ [][LoopNext]_vars

(***************************************************************************)
(* What the properties below read of the last call                          *)
(***************************************************************************)
\* a call was made
Called == prev # <<>>

\* the last call received a running state, so it computed a tick
Ran == Called /\ prev[1].status = "running"

\* the agent of that id in a list, as a sequence of zero or one element
Find(list, id) == SelectSeqBy(list, {x \in Range(list) : x.id = id})

(***************************************************************************)
(* C2  Head-on resolution: among the agents outside their safe window that  *)
(* passed the wall/occupancy check and target the same cell in one tick,    *)
(* two or more of them, the one strictly longest agent, if there is one,    *)
(* alone survives and moves into the cell, every other contestant being     *)
(* eliminated with a head collision; if the greatest length is shared,      *)
(* every contestant is eliminated, the strictly shorter ones included.      *)
(***************************************************************************)
\* the moves of the last call that stand in the contest for the cell
Contestants(cell) ==
    {j \in 1..Len(lastMoves) :
        /\ lastMoves[j].willMove
        /\ lastMoves[j].nextHead = cell
        /\ ~lastMoves[j].collided \/ lastMoves[j].reason = "head"
        /\ prev[1].tick >= lastMoves[j].snake.safeUntilTick}

LengthOf(j) == Len(lastMoves[j].snake.segments)

HeadOnResolution ==
    Ran => \A j \in 1..Len(lastMoves) :
              LET contest == Contestants(lastMoves[j].nextHead)
                  longest == {k \in contest : \A l \in contest : LengthOf(k) >= LengthOf(l)}
                  eliminated == lastMoves[j].collided /\ lastMoves[j].reason = "head"
                  after == Find(snakes, lastMoves[j].snake.id)
              IN  (j \in contest /\ Cardinality(contest) >= 2) =>
                      IF Cardinality(longest) = 1 /\ j \in longest
                      THEN /\ ~lastMoves[j].collided
                           /\ after # <<>>
                           /\ after[1].segments[1] = lastMoves[j].nextHead
                      ELSE /\ eliminated
                           /\ after = <<>>

\* three agents of lengths 5, 5 and 3 met in one cell and all were eliminated
HeadOnResolutionWitness ==
    /\ Ran
    /\ \E j \in 1..Len(lastMoves) :
          LET contest == Contestants(lastMoves[j].nextHead)
          IN  /\ j \in contest
              /\ Cardinality(contest) = 3
              /\ \E a, b, c \in contest :
                    /\ a # b
                    /\ LengthOf(a) = 5 /\ LengthOf(b) = 5 /\ LengthOf(c) = 3
              /\ \A k \in contest : lastMoves[k].collided /\ lastMoves[k].reason = "head"
    /\ snakes = <<>>
    /\ status = "gameover"

(***************************************************************************)
(* C3  Safety window: an AI agent that respawns into the state with tick T  *)
(* has safeUntilTick = T + 12; in the calls made from the states with tick  *)
(* in T..T+11 it is not eliminated by any body or head collision, whatever  *)
(* commands are passed (a wall still eliminates it); from the call made at  *)
(* tick T + 12 on it is subject to the normal collision rules.              *)
(***************************************************************************)
\* the move of a respawned AI agent made inside its window T..T+11
InWindow(move) ==
    /\ move.snake.controller = "ai"
    /\ move.snake.safeUntilTick - 12 <= prev[1].tick
    /\ prev[1].tick < move.snake.safeUntilTick

\* the agents of the state before the call, other than the mover, that hold the cell
Holders(move, cell) ==
    {k \in 1..Len(prev[1].snakes) :
        /\ prev[1].snakes[k].id # move.snake.id
        /\ cell \in Range(prev[1].snakes[k].segments)}

\* the normal rule for a body contact: the cell is on the board and held by
\* exactly one other agent, outside its own window; the cell is not that
\* agent's tail, and the two heads are not swapping cells
BodyContact(move) ==
    /\ move.willMove
    /\ InGrid(move.nextHead, prev[1].config)
    /\ \E k \in Holders(move, move.nextHead) :
          LET other == prev[1].snakes[k]
          IN  /\ Holders(move, move.nextHead) = {k}
              /\ prev[1].tick >= other.safeUntilTick
              /\ move.nextHead # other.segments[Len(other.segments)]
              /\ ~(/\ move.nextHead = other.segments[1]
                   /\ lastMoves[k].nextHead = move.snake.segments[1])

\* the agents that entered the state in the last call
Respawned ==
    {j \in 1..Len(snakes) : \A i \in 1..Len(prev[1].snakes) : prev[1].snakes[i].id # snakes[j].id}

\* the claim as stated: no collision of any kind eliminates the agent in its window
SafeWindowAnyCollision ==
    Ran => \A j \in 1..Len(lastMoves) : InWindow(lastMoves[j]) => ~lastMoves[j].collided

SafeWindow ==
    Ran => /\ \A j \in Respawned :
                 /\ snakes[j].controller = "ai"
                 /\ snakes[j].safeUntilTick = tick + 12
           /\ \A j \in 1..Len(lastMoves) :
                 LET move == lastMoves[j]
                 IN  /\ (InWindow(move) /\ move.collided) => move.reason = "wall"
                     /\ (prev[1].tick >= move.snake.safeUntilTick /\ BodyContact(move))
                            => move.collided

\* in the last call of its window, made at tick T + 11, a respawned agent moved
\* into the head cell of a player that did not give way, and survived
SafeWindowWitness ==
    /\ Ran
    /\ \E j \in 1..Len(lastMoves) :
          LET move == lastMoves[j]
              after == Find(snakes, move.snake.id)
          IN  /\ InWindow(move)
              /\ prev[1].tick = move.snake.safeUntilTick - 1
              /\ \E k \in Holders(move, move.nextHead) :
                    /\ prev[1].snakes[k].controller = "player"
                    /\ prev[1].snakes[k].segments[1] = move.nextHead
                    /\ prev[1].tick >= prev[1].snakes[k].safeUntilTick
              /\ ~move.collided
              /\ after # <<>>
              /\ after[1].segments[1] = move.nextHead

(***************************************************************************)
(* C4  Status rule: every state returned by advanceState from a running     *)
(* state has status gameover if and only if its agent list holds no         *)
(* player-controlled agent; AI agents that survive the player do not keep   *)
(* the run going, and the elimination of AI agents alone does not end it.   *)
(***************************************************************************)
HasPlayer(list) == \E i \in 1..Len(list) : list[i].controller = "player"

StatusRule ==
    Ran => (status = "gameover" <=> ~HasPlayer(snakes))

\* the player was eliminated in a tick that an AI agent survived
StatusRuleWitness ==
    /\ Ran
    /\ HasPlayer(prev[1].snakes)
    /\ status = "gameover"
    /\ \E i \in 1..Len(snakes) : snakes[i].controller = "ai"

(***************************************************************************)
(* C5  Game over is absorbing: advanceState called on a state whose status  *)
(* is not running returns that state unchanged, whatever the command list.  *)
(***************************************************************************)
GameOverAbsorbing ==
    (Called /\ prev[1].status # "running") => State = prev[1]

\* a call was made on a finished run
GameOverAbsorbingWitness ==
    /\ Called
    /\ prev[1].status = "gameover"
    /\ status = "gameover"
    /\ tick = prev[1].tick

(***************************************************************************)
(* C6  No reversal: an agent present before and after a tick never ends the *)
(* tick heading in the exact opposite of the direction it had before it,    *)
(* whatever was commanded or chosen by the AI policy.                       *)
(***************************************************************************)
Reverses(d1, d2) ==
    /\ directionVectors(d1)[1] + directionVectors(d2)[1] = 0
    /\ directionVectors(d1)[2] + directionVectors(d2)[2] = 0

NoReversal ==
    Ran => \A i \in 1..Len(prev[1].snakes), j \in 1..Len(snakes) :
              prev[1].snakes[i].id = snakes[j].id
                  => ~Reverses(prev[1].snakes[i].direction, snakes[j].direction)

\* the state returned by a call that commanded an agent to reverse: the agent
\* is one cell further along its old heading
NoReversalWitness ==
    /\ Ran
    /\ \E i \in 1..Len(prev[1].snakes) :
          LET before == prev[1].snakes[i]
              after == Find(snakes, before.id)
          IN  /\ State = advanceState(prev[1], <<Turn(before.id, opposite(before.direction))>>)
              /\ after # <<>>
              /\ after[1].direction = before.direction
              /\ after[1].segments[1] = nextPosition(before.segments[1], before.direction)

(***************************************************************************)
(* C7  Food cap: the initial state and every state reached by advanceState  *)
(* calls hold at most MAX_FOOD (5) foods.                                   *)
(***************************************************************************)
FoodCap == Len(foods) <= 5

\* a tick in which a food of a full board was eaten and the board refilled
FoodCapWitness ==
    /\ Ran
    /\ Len(prev[1].foods) = 5
    /\ \E j \in 1..Len(lastMoves) : lastMoves[j].ateFoodId # NoFood /\ ~lastMoves[j].collided
    /\ Len(foods) = 5
    /\ foods # prev[1].foods

(***************************************************************************)
(* C8  Growth accounting: an agent that moves without colliding, with       *)
(* pendingGrowth p before the tick and growth g of the food on its new head *)
(* cell (0 if none), gains exactly one segment if p + g > 0 and none        *)
(* otherwise, and is left with pendingGrowth max(0, p + g - 1).             *)
(***************************************************************************)
GrowthOn(foodList, cell) ==
    LET at == {k \in 1..Len(foodList) : foodList[k].position = cell}
    IN  IF at = {} THEN 0 ELSE foodList[CHOOSE k \in at : TRUE].growth

GrowthAccounting ==
    Ran => \A i \in 1..Len(prev[1].snakes), j \in 1..Len(snakes) :
              LET before == prev[1].snakes[i]
                  after == snakes[j]
                  p == before.pendingGrowth
                  g == GrowthOn(prev[1].foods, after.segments[1])
              IN  (before.id = after.id /\ after.segments[1] # before.segments[1])
                      => /\ Len(after.segments) = Len(before.segments)
                                                    + (IF p + g > 0 THEN 1 ELSE 0)
                         /\ after.pendingGrowth = MaxOf(0, p + g - 1)

\* an agent with no pending growth ate a food of growth 3
GrowthAccountingWitness ==
    /\ Ran
    /\ \E i \in 1..Len(prev[1].snakes), j \in 1..Len(snakes) :
          /\ prev[1].snakes[i].id = snakes[j].id
          /\ prev[1].snakes[i].pendingGrowth = 0
          /\ GrowthOn(prev[1].foods, snakes[j].segments[1]) = 3
          /\ Len(snakes[j].segments) = Len(prev[1].snakes[i].segments) + 1
          /\ snakes[j].pendingGrowth = 2

(***************************************************************************)
(* C9  Speed boost: while an agent holds an active speedBoost of multiplier *)
(* m > 1 it advances more cells over a span of ticks than an agent without  *)
(* effects, which advances one cell per tick: over any span of two or more  *)
(* ticks held under the boost, more cells than ticks.                       *)
(***************************************************************************)
SpeedBoostFaster ==
    \A id \in AllIds : boostLog[id][1] >= 2 => boostLog[id][2] > boostLog[id][1]

(***************************************************************************)
(* C10  Straight-line run: with aiCount = 0 and no command ever passed, the *)
(* player's head advances one cell per tick along its spawn row in its      *)
(* spawn direction, the run stays running while that cell is inside the     *)
(* grid, and the first tick whose cell is off the grid eliminates the       *)
(* player by a wall collision and ends the run; on the 32x24 board within   *)
(* 50 ticks.                                                                *)
(***************************************************************************)
\* the cell t steps from the player's spawn head in its spawn direction
SpawnRay(t) ==
    LET layout == createSpawnPoints(config)[1]
    IN  <<layout.head[1] + t * directionVectors(layout.direction)[1],
          layout.head[2] + t * directionVectors(layout.direction)[2]>>

OnBoard(cell) ==
    cell[1] \in 0..(config.cols - 1) /\ cell[2] \in 0..(config.rows - 1)

AiIds == {"ai-1", "ai-2", "ai-3", "ai-4"}

\* a ticket of that id is queued
Pending(id) == \E k \in 1..Len(respawnQueue) : respawnQueue[k].snakeId = id

\* a ticket of that id is queued with r ticks remaining
Queued(id, r) ==
    \E k \in 1..Len(respawnQueue) :
        respawnQueue[k].snakeId = id /\ respawnQueue[k].ticksRemaining = r

\* a live agent of that id is in the state
AliveAgent(id) == \E j \in 1..Len(snakes) : snakes[j].id = id /\ snakes[j].alive

\* the foods of the state before the call that the call kept
KeptFoods == {f \in Range(prev[1].foods) : \E k \in 1..Len(foods) : foods[k].id = f.id}

\* the three cells of a spawn layout
LayoutCells(layout) == Range(buildSnake("x", layout.head, layout.direction, "ai", 0).segments)

\* some spawn layout has its three cells on the board and off the given cells
LayoutFree(cells) ==
    \E layout \in Range(createSpawnPoints(config)) :
        \A cell \in LayoutCells(layout) : OnBoard(cell) /\ cell \notin cells

\* the run was cut while running
Horizon == status = "running" /\ script = <<>> /\ callsLeft = 0

\* one running call, ticket by ticket
RespawnStep ==
    Ran =>
      /\ \A j \in 1..Len(lastMoves) :
            (lastMoves[j].willMove /\ lastMoves[j].collided
                    /\ lastMoves[j].snake.controller = "ai")
                => Queued(lastMoves[j].snake.id, RESPAWN_DELAY_TICKS - 1)
      /\ \A k \in 1..Len(prev[1].respawnQueue) :
            LET ticket == prev[1].respawnQueue[k]
            IN  IF ticket.ticksRemaining > 1
                THEN Queued(ticket.snakeId, ticket.ticksRemaining - 1)
                        /\ ~AliveAgent(ticket.snakeId)
                ELSE /\ LayoutFree(OccupiedCells(snakes, <<>>)
                                      \cup {f.position : f \in KeptFoods})
                            => AliveAgent(ticket.snakeId)
                     /\ AliveAgent(ticket.snakeId) \/ Queued(ticket.snakeId, 1)

\* the claim as stated: a queued ticket always leads to a live agent
RespawnAlways ==
    \A id \in AiIds :
        Pending(id) ~> (AliveAgent(id) \/ Horizon \/ ~LayoutFree(OccupiedCells(snakes, foods)))

RespawnEventuality ==
    /\ []RespawnStep
    /\ \A id \in AiIds :
          Pending(id) ~> (\/ AliveAgent(id)
                          \/ status = "gameover"
                          \/ Horizon
                          \/ ~LayoutFree(OccupiedCells(snakes, foods)))

\* the call that brought a ticket to 0 placed the agent, inside its safe window
RespawnEventualityWitness ==
    /\ Ran
    /\ status = "running"
    /\ \E k \in 1..Len(prev[1].respawnQueue) :
          /\ prev[1].respawnQueue[k].ticksRemaining = 1
          /\ AliveAgent(prev[1].respawnQueue[k].snakeId)
          /\ ~Pending(prev[1].respawnQueue[k].snakeId)

(***************************************************************************)
(* C12  Body well-formedness: in every reachable state every agent has at   *)
(* least 3 segments, all of them inside the grid, consecutive ones          *)
(* orthogonally adjacent; the head is the first segment, the cell the agent *)
(* moved into, followed by the cells it held; and from one state to the     *)
(* next the segment count of an agent never decreases.                      *)
(***************************************************************************)
Adjacent(a, b) == Abs(a[1] - b[1]) + Abs(a[2] - b[2]) = 1

WellFormed(snake) ==
    /\ Len(snake.segments) >= 3
    /\ \A k \in 1..Len(snake.segments) : OnBoard(snake.segments[k])
    /\ \A k \in 1..(Len(snake.segments) - 1) :
          Adjacent(snake.segments[k], snake.segments[k + 1])

BodyWellFormed ==
    /\ \A j \in 1..Len(snakes) : WellFormed(snakes[j])
    /\ Ran => \A i \in 1..Len(prev[1].snakes), j \in 1..Len(snakes) :
                 LET before == prev[1].snakes[i]
                     after == snakes[j]
                 IN  before.id = after.id =>
                        /\ Len(after.segments) >= Len(before.segments)
                        /\ after.segments[1] = lastMoves[i].nextHead
                        /\ Tail(after.segments)
                              = SubSeq(before.segments, 1, Len(after.segments) - 1)

\* an agent longer than 3 moved along the edge of the board without growing
BodyWellFormedWitness ==
    /\ Ran
    /\ \E i \in 1..Len(prev[1].snakes), j \in 1..Len(snakes) :
          /\ prev[1].snakes[i].id = snakes[j].id
          /\ Len(snakes[j].segments) > 3
          /\ Len(snakes[j].segments) = Len(prev[1].snakes[i].segments)
          /\ snakes[j].segments[1] # prev[1].snakes[i].segments[1]
          /\ snakes[j].segments[1][1] \in {0, config.cols - 1}
                \/ snakes[j].segments[1][2] \in {0, config.rows - 1}

(***************************************************************************)
(* C13  Tick counter: every advanceState call on a running state returns a  *)
(* state whose tick is the tick received plus 1, whatever moved, collided,  *)
(* ate or respawned in the call, the call that ends the run included.       *)
(***************************************************************************)
TickCounter == Ran => tick = prev[1].tick + 1

\* the call that ended the run, with two agents eliminated, counted one tick
TickCounterWitness ==
    /\ Ran
    /\ status = "gameover"
    /\ Cardinality({j \in 1..Len(lastMoves) : lastMoves[j].collided}) >= 2
    /\ tick = prev[1].tick + 1

(***************************************************************************)
(* C14  Config clamping: whatever integers the config passed to             *)
(* createInitialState holds, the state is built, and its config has cols    *)
(* and rows raised to 8, tickRate raised to 1 and aiCount brought into      *)
(* 0..4, values in range and the seed being kept; the agents are the player *)
(* and aiCount AI agents; every later state of the run has the same config. *)
(***************************************************************************)
Raised(n, least) == IF n < least THEN least ELSE n

ConfigClamped ==
    /\ config.cols = Raised(requested.cols, 8)
    /\ config.rows = Raised(requested.rows, 8)
    /\ config.tickRate = Raised(requested.tickRate, 1)
    /\ config.aiCount = (IF requested.aiCount > 4 THEN 4 ELSE Raised(requested.aiCount, 0))
    /\ config.seed = requested.seed
    /\ ~Called => /\ tick = 0
                  /\ status = "running"
                  /\ Len(snakes) = 1 + config.aiCount
    /\ Called => config = prev[1].config

\* a state returned by advanceState in a run whose config was out of range in
\* every clamped field
ConfigClampedWitness ==
    /\ Called
    /\ requested.cols < 8 /\ requested.rows < 8
    /\ requested.tickRate < 1 /\ requested.aiCount > 4
    /\ config.cols = 8 /\ config.rows = 8 /\ config.tickRate = 1 /\ config.aiCount = 4

(***************************************************************************)
(* C15  Last command wins: the state advanceState returns for a command     *)
(* list is the state it returns for the list without the commands that a    *)
(* later command of the same agent id follows, also when the last command   *)
(* of the agent is rejected as a reversal.                                  *)
(***************************************************************************)
\* the positions of the list that hold the last command of their agent id
LastPositions(commands) ==
    {k \in 1..Len(commands) :
        \A l \in (k + 1)..Len(commands) : commands[l].snakeId # commands[k].snakeId}

RECURSIVE Keep(_, _, _)
\* the commands at the kept positions, from position k on, in list order
Keep(commands, kept, k) ==
    IF k > Len(commands) THEN <<>>
    ELSE (IF k \in kept THEN <<commands[k]>> ELSE <<>>) \o Keep(commands, kept, k + 1)

LastOnly(commands) == Keep(commands, LastPositions(commands), 1)

LastCommandWins ==
    Ran => State = advanceState(prev[1], LastOnly(lastCommands))

\* a call carried a legal turn and then a reversal for one agent: the agent
\* went straight on, which the turn passed alone would not have given
LastCommandWinsWitness ==
    /\ Ran
    /\ Len(lastCommands) = 2
    /\ lastCommands[1].snakeId = lastCommands[2].snakeId
    /\ \E i \in 1..Len(prev[1].snakes) :
          LET before == prev[1].snakes[i]
              after == Find(snakes, before.id)
          IN  /\ before.id = lastCommands[1].snakeId
              /\ Reverses(before.direction, lastCommands[2].direction)
              /\ lastCommands[1].direction \notin {before.direction, lastCommands[2].direction}
              /\ after # <<>>
              /\ after[1].direction = before.direction
              /\ State # advanceState(prev[1], <<lastCommands[1]>>)

(***************************************************************************)
(* C16  An illegal turn is ignored.  When the only command a call carries   *)
(* for an agent is the exact reverse of the agent's direction, the call     *)
(* returns the state it returns with the command replaced by one repeating  *)
(* the agent's direction; for a player-controlled agent that is also the    *)
(* state it returns with the command left out.  (For an AI agent the        *)
(* rejected command still stands in for the steering policy of that call.)  *)
(***************************************************************************)
\* the positions of the list whose command is the only one of its agent, an
\* agent of the controllers given, and reverses that agent's direction
ReversalsAt(st, commands, controllers) ==
    {k \in 1..Len(commands) :
        /\ \A l \in 1..Len(commands) : l # k => commands[l].snakeId # commands[k].snakeId
        /\ \E i \in 1..Len(st.snakes) :
              /\ st.snakes[i].id = commands[k].snakeId
              /\ st.snakes[i].alive
              /\ st.snakes[i].controller \in controllers
              /\ commands[k].direction = opposite(st.snakes[i].direction)}

\* the list without its command at position k
LeftOut(commands, k) == Keep(commands, (1..Len(commands)) \ {k}, 1)

\* the list with the command at position k repeating the agent's direction
Repeated(commands, k) ==
    [commands EXCEPT ![k] = Turn(commands[k].snakeId, opposite(commands[k].direction))]

\* the statement for every agent, player or AI
ReversalLeftOut ==
    Ran => \A k \in ReversalsAt(prev[1], lastCommands, {"player", "ai"}) :
              State = advanceState(prev[1], LeftOut(lastCommands, k))

IllegalTurnIgnored ==
    Ran => /\ \A k \in ReversalsAt(prev[1], lastCommands, {"player", "ai"}) :
                State = advanceState(prev[1], Repeated(lastCommands, k))
           /\ \A k \in ReversalsAt(prev[1], lastCommands, {"player"}) :
                State = advanceState(prev[1], LeftOut(lastCommands, k))

\* a call carried a reversal for an AI agent, and the call without it would
\* have returned another state
IllegalTurnIgnoredWitness ==
    /\ Ran
    /\ \E k \in ReversalsAt(prev[1], lastCommands, {"ai"}) :
          State # advanceState(prev[1], LeftOut(lastCommands, k))

(***************************************************************************)
(* C17  Head-to-head swap: when two agents outside their safe window have   *)
(* their heads on adjacent cells and each moves into the other's head cell  *)
(* in the same call, at least one of the two is eliminated in that call.    *)
(***************************************************************************)
\* agents i and j of the state before the call exchanged their head cells
Swapping(i, j) ==
    /\ i # j
    /\ ~isSnakeSafe(prev[1].snakes[i], prev[1].tick)
    /\ ~isSnakeSafe(prev[1].snakes[j], prev[1].tick)
    /\ Adjacent(prev[1].snakes[i].segments[1], prev[1].snakes[j].segments[1])
    /\ lastMoves[i].willMove
    /\ lastMoves[j].willMove
    /\ lastMoves[i].nextHead = prev[1].snakes[j].segments[1]
    /\ lastMoves[j].nextHead = prev[1].snakes[i].segments[1]

HeadSwapDecided ==
    Ran => \A i, j \in 1..Len(prev[1].snakes) :
              Swapping(i, j) => ~(AliveAgent(prev[1].snakes[i].id) /\ AliveAgent(prev[1].snakes[j].id))

(***************************************************************************)
(* C18  Food removal: a food present before a call is absent after it only  *)
(* if an agent moved onto its cell without colliding and is alive after the *)
(* call with its head on that cell; a food that only collided agents        *)
(* targeted stays in the food list.                                         *)
(***************************************************************************)
\* the agent of move k went onto the cell and stands there after the call
Ate(k, pos) ==
    /\ lastMoves[k].willMove
    /\ ~lastMoves[k].collided
    /\ lastMoves[k].nextHead = pos
    /\ \E j \in 1..Len(snakes) :
          /\ snakes[j].id = lastMoves[k].snake.id
          /\ snakes[j].alive
          /\ snakes[j].segments[1] = pos

FoodRemovalEarned ==
    Ran => \A f \in 1..Len(prev[1].foods) :
              (\A g \in 1..Len(foods) : foods[g].id # prev[1].foods[f].id)
                  => \E k \in 1..Len(lastMoves) : Ate(k, prev[1].foods[f].position)

(***************************************************************************)
(* C19  Accumulator range: in every reachable state the speed accumulator   *)
(* a of every agent satisfies 0 <= a < 1, also while and after the agent    *)
(* holds speedBoost effects.                                                *)
(***************************************************************************)
AccumulatorInRange ==
    \A j \in 1..Len(snakes) :
        /\ snakes[j].accumulator[1] >= 0
        /\ snakes[j].accumulator[2] > 0
        /\ RLessOne(snakes[j].accumulator)

(***************************************************************************)
(* C20  Safety protects both sides of body contact.  When the target cell   *)
(* of a moving agent lies on the board and is held by a different agent,    *)
(* and the mover or that agent is within its safe window (tick below        *)
(* safeUntilTick), the mover receives no body collision.  An agent within   *)
(* its safe window is left out of every head-on contest: it is never        *)
(* eliminated by one, and whoever is eliminated by one lost to a contestant *)
(* outside its window that reached the same cell and is at least as long.   *)
(***************************************************************************)
SafeAt(k) == isSnakeSafe(prev[1].snakes[k], prev[1].tick)

\* move k entered the head-on stage: it was made and passed the wall and
\* body checks
Contestant(k) ==
    /\ lastMoves[k].willMove
    /\ ~(lastMoves[k].collided /\ lastMoves[k].reason \in {"wall", "body"})

SafetyBothSides ==
    Ran => \A i \in 1..Len(lastMoves) :
              LET move == lastMoves[i]
              IN  /\ (/\ move.willMove
                      /\ InGrid(move.nextHead, prev[1].config)
                      /\ \E k \in Holders(move, move.nextHead) : SafeAt(i) \/ SafeAt(k))
                         => ~(move.collided /\ move.reason = "body")
                  /\ (move.collided /\ move.reason = "head")
                         => /\ ~SafeAt(i)
                            /\ \E k \in 1..Len(lastMoves) :
                                  /\ k # i
                                  /\ ~SafeAt(k)
                                  /\ Contestant(k)
                                  /\ lastMoves[k].nextHead = move.nextHead
                                  /\ Len(prev[1].snakes[k].segments) >= Len(prev[1].snakes[i].segments)

\* an agent outside its window and an agent within its window had come out
\* of a meeting on one cell, both alive with their heads on it; the first
\* then moved into a cell inside the body of the second, and lives on with
\* its head on that cell
SafetyBothSidesWitness ==
    /\ Ran
    /\ \E i \in 1..Len(lastMoves) :
          LET move == lastMoves[i]
              after == Find(snakes, move.snake.id)
          IN  /\ ~SafeAt(i)
              /\ move.willMove
              /\ \E k \in Holders(move, move.nextHead) :
                    /\ SafeAt(k)
                    /\ prev[1].snakes[k].segments[1] = prev[1].snakes[i].segments[1]
                    /\ \E n \in 2..(Len(prev[1].snakes[k].segments) - 1) :
                          prev[1].snakes[k].segments[n] = move.nextHead
              /\ after # <<>>
              /\ after[1].segments[1] = move.nextHead

(***************************************************************************)
(* C21  Tail vacancy.  A mover M outside its safe window whose target cell  *)
(* lies on the board and is held by exactly one other agent O (and not by   *)
(* M itself), O outside its safe window and not exchanging head cells with  *)
(* M, passes the occupancy check if and only if O moves in the call, the    *)
(* target is O's tail cell and O's pendingGrowth plus the growth O eats in  *)
(* the call is 0; otherwise M is eliminated with a body collision.  O is    *)
(* unaffected: if O is eliminated, it is by the wall, by a holder of its    *)
(* own target or by a contestant that passed the occupancy check.           *)
(***************************************************************************)
\* mover i meets the body of agent k, and no safety or head swap applies
BodyMeeting(i, k) ==
    /\ lastMoves[i].willMove
    /\ InGrid(lastMoves[i].nextHead, prev[1].config)
    /\ Holders(lastMoves[i], lastMoves[i].nextHead) = {k}
    /\ lastMoves[i].nextHead \notin Range(prev[1].snakes[i].segments)
    /\ ~SafeAt(i)
    /\ ~SafeAt(k)
    /\ ~(/\ lastMoves[i].nextHead = prev[1].snakes[k].segments[1]
         /\ lastMoves[k].willMove
         /\ lastMoves[k].nextHead = prev[1].snakes[i].segments[1])

\* the cell is the tail of agent k, and the tail is dropped in the call
TailLeaves(k, cell) ==
    /\ lastMoves[k].willMove
    /\ cell = prev[1].snakes[k].segments[Len(prev[1].snakes[k].segments)]
    /\ prev[1].snakes[k].pendingGrowth + lastMoves[k].growth = 0

\* the move of agent k, if it collided, did so on its own account
OwnFate(k) ==
    lastMoves[k].collided =>
        \/ lastMoves[k].reason = "wall" /\ ~InGrid(lastMoves[k].nextHead, prev[1].config)
        \/ lastMoves[k].reason = "body" /\ Holders(lastMoves[k], lastMoves[k].nextHead) # {}
        \/ /\ lastMoves[k].reason = "head"
           /\ \E j \in 1..Len(lastMoves) :
                 j # k /\ Contestant(j) /\ lastMoves[j].nextHead = lastMoves[k].nextHead

SelfContact(i) ==
    /\ lastMoves[i].willMove
    /\ InGrid(lastMoves[i].nextHead, prev[1].config)
    /\ Occupant(prev[1].snakes, lastMoves[i].nextHead) = prev[1].snakes[i].id

SelfContactHarmless ==
    Ran => \A i \in 1..Len(lastMoves) :
              SelfContact(i) => ~(lastMoves[i].collided /\ lastMoves[i].reason \in {"wall", "body"})

\* an agent moved onto a cell of its own body that is not its tail, and lives
\* on with its head and a later segment on that cell
SelfContactHarmlessWitness ==
    /\ Ran
    /\ \E i \in 1..Len(lastMoves) :
          LET before == prev[1].snakes[i]
              after == Find(snakes, before.id)
          IN  /\ SelfContact(i)
              /\ \E n \in 2..(Len(before.segments) - 1) : before.segments[n] = lastMoves[i].nextHead
              /\ after # <<>>
              /\ after[1].segments[1] = lastMoves[i].nextHead
              /\ \E n \in 2..Len(after[1].segments) : after[1].segments[n] = lastMoves[i].nextHead

(***************************************************************************)
(* C23  Fixed respawn delay: an AI agent eliminated in the call made at     *)
(* tick t is absent from the states with ticks t+1 .. t+23, where its       *)
(* ticket counts down from 23 to 1, and is in the state with tick t+24      *)
(* (RESPAWN_DELAY_TICKS = 24) when a spawn layout fits in the call that     *)
(* returns it; it never reappears earlier, and every ticket of a reachable  *)
(* state has ticksRemaining between 1 and 24.                               *)
(***************************************************************************)
\* an agent of that id is in the agent list
Present(id) == \E j \in 1..Len(snakes) : snakes[j].id = id

FixedRespawnDelay ==
    /\ \A k \in 1..Len(respawnQueue) :
          respawnQueue[k].ticksRemaining \in 1..RESPAWN_DELAY_TICKS
    /\ \A id \in AiIds :
          diedAt[id] # Never =>
              /\ tick >= diedAt[id] + 1
              /\ tick < diedAt[id] + RESPAWN_DELAY_TICKS
                    => /\ ~Present(id)
                       /\ Queued(id, RESPAWN_DELAY_TICKS - (tick - diedAt[id]))
              /\ (/\ tick = diedAt[id] + RESPAWN_DELAY_TICKS
                  /\ LayoutFree(OccupiedCells(snakes, <<>>) \cup {f.position : f \in KeptFoods}))
                    => AliveAgent(id)

\* an agent eliminated in the call made at tick t is back in the state with
\* tick t + 24, inside its safe window, having been away in the state before
FixedRespawnDelayWitness ==
    /\ Ran
    /\ \E id \in AiIds :
          /\ diedAt[id] # Never
          /\ tick = diedAt[id] + RESPAWN_DELAY_TICKS
          /\ AliveAgent(id)
          /\ \A i \in 1..Len(prev[1].snakes) : prev[1].snakes[i].id # id

(***************************************************************************)
(* C24  Respawn placement: every agent the respawn step creates has exactly *)
(* 3 segments, head and facing of one of the six predefined layouts, all    *)
(* segments inside the grid and none on a cell held, after the moves of the *)
(* call, by a surviving agent, by a food left after eating or by another    *)
(* agent respawned in the call; its safeUntilTick is the new tick + 12.     *)
(***************************************************************************)
\* the agent is the body of that layout
OfLayout(snake, layout) ==
    /\ snake.direction = layout.direction
    /\ snake.segments = buildSnake(snake.id, layout.head, layout.direction, "ai", 0).segments

RespawnPlacement ==
    Ran => \A j \in Respawned :
              /\ Len(snakes[j].segments) = 3
              /\ \E layout \in Range(createSpawnPoints(config)) : OfLayout(snakes[j], layout)
              /\ \A n \in 1..3 : OnBoard(snakes[j].segments[n])
              /\ \A i \in 1..Len(snakes) :
                    i # j => Range(snakes[i].segments) \cap Range(snakes[j].segments) = {}
              /\ \A f \in KeptFoods : f.position \notin Range(snakes[j].segments)
              /\ snakes[j].safeUntilTick = tick + SAFE_RESPAWN_TICKS
              /\ snakes[j].alive
              /\ snakes[j].controller = "ai"

\* an agent was respawned on a layout while another layout was blocked by a
\* surviving agent
RespawnPlacementWitness ==
    /\ Ran
    /\ \E j \in Respawned :
          \E layout \in Range(createSpawnPoints(config)) :
              /\ ~OfLayout(snakes[j], layout)
              /\ \E i \in 1..Len(snakes) :
                    /\ i \notin Respawned
                    /\ LayoutCells(layout) \cap Range(snakes[i].segments) # {}

(***************************************************************************)
(* C25  Failed respawn placement is a retry.  In a running call, a ticket   *)
(* of an AI agent whose countdown reaches 0 (stored with ticksRemaining 1,  *)
(* fresh or re-armed) gives, when a layout fits, that agent in the state    *)
(* returned and no ticket; when none of the six layouts fits, no agent and  *)
(* the ticket again with ticksRemaining 1, so that the placement is tried   *)
(* in every following running call until it succeeds.                       *)
(***************************************************************************)
\* the cells taken when the ticket at position k of the queue is tried: those
\* of the survivors, of the foods kept and of the agents respawned from the
\* tickets before it
TakenBefore(k) ==
    UNION {Range(snakes[j].segments) :
             j \in {j \in 1..Len(snakes) :
                      \/ j \notin Respawned
                      \/ \E l \in 1..(k - 1) : prev[1].respawnQueue[l].snakeId = snakes[j].id}}
      \cup {f.position : f \in KeptFoods}

\* the tickets of that id in the queue
TicketsOf(id) == {l \in 1..Len(respawnQueue) : respawnQueue[l].snakeId = id}

RespawnRetry ==
    Ran => \A k \in 1..Len(prev[1].respawnQueue) :
              LET ticket == prev[1].respawnQueue[k]
              IN  (ticket.controller = "ai" /\ ticket.ticksRemaining = 1) =>
                      IF LayoutFree(TakenBefore(k))
                      THEN /\ \E j \in Respawned : snakes[j].id = ticket.snakeId
                           /\ TicketsOf(ticket.snakeId) = {}
                      ELSE /\ ~Present(ticket.snakeId)
                           /\ \E l \in TicketsOf(ticket.snakeId) :
                                 /\ TicketsOf(ticket.snakeId) = {l}
                                 /\ respawnQueue[l].ticksRemaining = 1

\* a ticket that had failed before was tried again and gave the agent: the
\* agent is back later than RESPAWN_DELAY_TICKS ticks after its elimination
RespawnRetryWitness ==
    /\ Ran
    /\ \E k \in 1..Len(prev[1].respawnQueue) :
          LET ticket == prev[1].respawnQueue[k]
          IN  /\ ticket.ticksRemaining = 1
              /\ diedAt[ticket.snakeId] # Never
              /\ tick > diedAt[ticket.snakeId] + RESPAWN_DELAY_TICKS
              /\ AliveAgent(ticket.snakeId)
              /\ TicketsOf(ticket.snakeId) = {}

(***************************************************************************)
(* C26  AI population conservation: in every reachable state, for each i in *)
(* 1..aiCount either the agent list holds exactly one agent with id ai-i    *)
(* and the respawn queue no ticket for it, or the queue holds exactly one   *)
(* ticket for ai-i and the list no such agent; the list holds at most one   *)
(* agent with id player and live agents only, and no ticket is the          *)
(* player's.                                                                *)
(***************************************************************************)
\* the agents of that id in the list
AgentsOf(id) == {j \in 1..Len(snakes) : snakes[j].id = id}

PopulationConserved ==
    /\ \A i \in 1..4 :
          IF i <= config.aiCount
          THEN Cardinality(AgentsOf(AiId(i))) + Cardinality(TicketsOf(AiId(i))) = 1
          ELSE AgentsOf(AiId(i)) = {} /\ TicketsOf(AiId(i)) = {}
    /\ Cardinality(AgentsOf("player")) <= 1
    /\ \A j \in 1..Len(snakes) :
          /\ snakes[j].alive
          /\ snakes[j].id \in {"player"} \cup AiIds
          /\ snakes[j].controller = (IF snakes[j].id = "player" THEN "player" ELSE "ai")
    /\ \A l \in 1..Len(respawnQueue) :
          /\ respawnQueue[l].snakeId \in AiIds
          /\ respawnQueue[l].controller = "ai"

\* the call eliminated the player and an AI agent together: the list holds
\* the other AI agent only, the queue the ticket of the eliminated one
PopulationConservedWitness ==
    /\ Ran
    /\ config.aiCount = 2
    /\ AgentsOf("player") = {}
    /\ \E i, k \in 1..2 :
          /\ i # k
          /\ Cardinality(AgentsOf(AiId(i))) = 1
          /\ Cardinality(TicketsOf(AiId(k))) = 1
          /\ \E m \in 1..Len(lastMoves) :
                lastMoves[m].snake.id = AiId(k) /\ lastMoves[m].collided

(***************************************************************************)
(* C27  AI policy legality: the direction computeAiTurn chooses is never    *)
(* the reverse of the agent's direction, never leads off the grid and never *)
(* to a cell the pre-move occupancy records under an agent, except the      *)
(* agent's own tail cell when its pendingGrowth <= 0; it returns no         *)
(* direction if and only if none of the three other directions meets these  *)
(* conditions, and then the agent keeps its heading.                        *)
(***************************************************************************)
\* the directions the policy may choose for the agent in state st
LegalTurns(snake, st) ==
    {d \in Directions :
        LET target == nextPosition(snake.segments[1], d)
            holder == Occupant(st.snakes, target)
        IN  /\ d # opposite(snake.direction)
            /\ target[1] \in 0..(st.config.cols - 1)
            /\ target[2] \in 0..(st.config.rows - 1)
            /\ \/ holder = None
               \/ /\ holder = snake.id
                  /\ target = snake.segments[Len(snake.segments)]
                  /\ snake.pendingGrowth <= 0}

\* the agents of the state before the call that the policy steered: the AI
\* agents the command list does not name
PolicySteered(commands) ==
    {i \in 1..Len(prev[1].snakes) :
        /\ prev[1].snakes[i].controller = "ai"
        /\ \A k \in 1..Len(commands) : commands[k].snakeId # prev[1].snakes[i].id}

AiPolicyLegal ==
    Ran => \A i \in 1..Len(prev[1].snakes) :
              LET snake == prev[1].snakes[i]
                  legal == LegalTurns(snake, prev[1])
                  chosen == computeAiTurn(snake, prev[1], prev[1].snakes, prev[1].rngState).direction
              IN  /\ snake.controller = "ai" =>
                        IF legal = {} THEN chosen = None ELSE chosen \in legal
                  /\ i \in PolicySteered(lastCommands) =>
                        /\ lastMoves[i].willMove
                        /\ IF legal = {} THEN lastMoves[i].direction = snake.direction
                           ELSE lastMoves[i].direction \in legal

\* the policy turned an agent away from the cell straight ahead, which was on
\* the board and held by another agent
AiPolicyLegalWitness ==
    /\ Ran
    /\ \E i \in PolicySteered(lastCommands) :
          LET snake == prev[1].snakes[i]
              ahead == nextPosition(snake.segments[1], snake.direction)
          IN  /\ Occupant(prev[1].snakes, ahead) \notin {None, snake.id}
              /\ lastMoves[i].direction # snake.direction
              /\ lastMoves[i].direction \in LegalTurns(snake, prev[1])
              /\ ~lastMoves[i].collided

(***************************************************************************)
(* C28  Only a cornered AI dies by wall or body: an AI agent that receives  *)
(* no command in a call is eliminated with a wall or body collision in that *)
(* call only if each of its three non-reverse directions led off the grid   *)
(* or to an occupied cell; when it has a legal direction it can only be     *)
(* eliminated by a head-on contest.                                         *)
(***************************************************************************)
OnlyCornered ==
    Ran => \A i \in PolicySteered(lastCommands) :
              (lastMoves[i].collided /\ LegalTurns(prev[1].snakes[i], prev[1]) # {})
                  => lastMoves[i].reason = "head"

\* an AI agent left to its policy had the wall ahead and beside it and another
\* agent on the third cell: it kept its heading and was eliminated by the wall
OnlyCorneredWitness ==
    /\ Ran
    /\ \E i \in PolicySteered(lastCommands) :
          /\ LegalTurns(prev[1].snakes[i], prev[1]) = {}
          /\ lastMoves[i].direction = prev[1].snakes[i].direction
          /\ lastMoves[i].collided
          /\ lastMoves[i].reason = "wall"
          /\ ~Present(prev[1].snakes[i].id)

(***************************************************************************)
(* C29  Food placement invariant: in the initial state and in every         *)
(* reachable state every food lies inside the grid, no two foods share a    *)
(* cell, and no food lies on a cell held by a segment of an agent of the    *)
(* list.                                                                    *)
(***************************************************************************)
FoodPlacement ==
    /\ \A f \in 1..Len(foods) :
          /\ OnBoard(foods[f].position)
          /\ \A j \in 1..Len(snakes) : foods[f].position \notin Range(snakes[j].segments)
    /\ \A f, g \in 1..Len(foods) : f # g => foods[f].position # foods[g].position

\* the first cell replenishFood draws in createInitialState
FirstDrawn ==
    LET r1 == RngAdvance(ToWord(config.seed))
        r2 == RngAdvance(r1)
    IN  <<FloorMul(RngOutput(r1), config.cols), FloorMul(RngOutput(r2), config.rows)>>

\* an initial state whose first drawn cell was held by an agent: the board is
\* full and no food lies on that cell
FoodPlacementWitness ==
    /\ ~Called
    /\ Len(foods) = MAX_FOOD
    /\ FirstDrawn \in OccupiedCells(snakes, <<>>)

(***************************************************************************)
(* C30  Initial state validity: for every clamped config createInitialState *)
(* returns a running state at tick 0 with an empty respawn queue and        *)
(* exactly 1 + aiCount agents, the player first and then ai-1 .. ai-n, each *)
(* with 3 segments inside the grid, and no cell holds segments of two       *)
(* different agents.                                                        *)
(***************************************************************************)
InitialStateValid ==
    ~Called =>
        /\ tick = 0
        /\ status = "running"
        /\ respawnQueue = <<>>
        /\ Len(snakes) = 1 + config.aiCount
        /\ snakes[1].id = "player"
        /\ \A i \in 1..config.aiCount : snakes[i + 1].id = AiId(i)
        /\ \A j \in 1..Len(snakes) :
              /\ Len(snakes[j].segments) = 3
              /\ \A n \in 1..3 : OnBoard(snakes[j].segments[n])
        /\ \A i, j \in 1..Len(snakes) :
              i # j => Range(snakes[i].segments) \cap Range(snakes[j].segments) = {}

(***************************************************************************)
(* C31  No overlap outside safe windows: in a run whose initial agents lie  *)
(* on pairwise disjoint cells, whenever a cell holds segments of two        *)
(* different agents at least one of the two is within its safe window       *)
(* (tick < safeUntilTick).                                                  *)
(***************************************************************************)
\* the agents of the list lie on pairwise disjoint cells
Disjoint(list) ==
    \A i, j \in 1..Len(list) :
        i # j => Range(list[i].segments) \cap Range(list[j].segments) = {}

\* agents i and j of the state share a cell
Overlapping(i, j) ==
    /\ i # j
    /\ Range(snakes[i].segments) \cap Range(snakes[j].segments) # {}

NoOverlapOutsideSafeWindows ==
    Disjoint(createInitialState(requested).snakes) =>
        \A i, j \in 1..Len(snakes) :
            Overlapping(i, j) =>
                isSnakeSafe(snakes[i], tick) \/ isSnakeSafe(snakes[j], tick)

(***************************************************************************)
(* C32  Stable agent order: the list of a fresh state is the player, then   *)
(* ai-1 .. ai-n; in every running state the player is the first agent; the  *)
(* agents that survive a call keep their relative order, and the agents     *)
(* respawned in the call follow all survivors, in the order of their        *)
(* tickets.                                                                 *)
(***************************************************************************)
\* the ids of a list of agents or tickets, in list order
IdsOf(list, field) == [k \in 1..Len(list) |-> list[k][field]]

\* the ids of the sequence that the agent list of the state holds
StillListed(ids) == SelectSeq(ids, LAMBDA id : AliveAgent(id))

StableAgentOrder ==
    /\ ~Called =>
          IdsOf(snakes, "id") = <<"player">> \o [i \in 1..config.aiCount |-> AiId(i)]
    /\ status = "running" => snakes[1].id = "player"
    /\ Ran =>
          IdsOf(snakes, "id") =
              StillListed(IdsOf(prev[1].snakes, "id"))
                  \o StillListed(IdsOf(prev[1].respawnQueue, "snakeId"))

\* a call that respawned ai-1 behind the surviving ai-2
StableAgentOrderWitness ==
    /\ Ran
    /\ status = "running"
    /\ IdsOf(snakes, "id") = <<"player", "ai-2", "ai-1">>
    /\ IdsOf(prev[1].snakes, "id") = <<"player", "ai-2">>

(***************************************************************************)
(* C36  One continuous PRNG sequence: the draws of a run, those of the      *)
(* initial food placement included, are the successive outputs of one       *)
(* generator seeded with config.seed.  Within a call the AI turns draw      *)
(* first, in agent list order, then the respawn placement, in ticket order, *)
(* then the food replenishment; the rngState returned is the generator      *)
(* state after the last draw, which after k draws in total is               *)
(* (seed + k * 0x6D2B79F5) mod 2^32.                                        *)
(***************************************************************************)
MaxDraws == 128

\* (seed + k * 0x6D2B79F5) mod 2^32 for the seed of the run
StateAfter(k) ==
    LET lo == k * RngIncrement[2]
        hi == (k * RngIncrement[1]) + (lo \div Limb)
    IN  WAdd(ToWord(config.seed), <<hi % Limb, lo % Limb>>)

\* the value of draw number k of the run
Draw(k) == RngOutput(StateAfter(k))

\* the generator state is the one after some number of draws
OnStream(w) == \E k \in 0..MaxDraws : StateAfter(k) = w

DrawsAt(w) == CHOOSE k \in 0..MaxDraws : StateAfter(k) = w

\* the draws of the policy for the first n agents of the state before the
\* call: one per candidate it scores
RECURSIVE AiDrawsUpTo(_)
AiDrawsUpTo(n) ==
    IF n = 0 THEN 0
    ELSE AiDrawsUpTo(n - 1)
           + (IF n \in PolicySteered(lastCommands)
              THEN Cardinality(LegalTurns(prev[1].snakes[n], prev[1]))
              ELSE 0)

\* the tickets of the state before the call whose countdown ends in the call
Expiring ==
    {k \in 1..Len(prev[1].respawnQueue) :
        /\ prev[1].respawnQueue[k].controller = "ai"
        /\ prev[1].respawnQueue[k].ticksRemaining <= 1}

\* the foods placed by the last call, or by createInitialState
FreshFoods ==
    {k \in 1..Len(foods) :
        Called => \A n \in 1..Len(prev[1].foods) : prev[1].foods[n].id # foods[k].id}

\* the cells a food placement of the last call could not take
HeldCells ==
    OccupiedCells(snakes, <<>>) \cup {foods[k].position : k \in (1..Len(foods)) \ FreshFoods}

OneGeneratorSequence ==
    LET before == IF Called THEN prev[1].rngState ELSE ToWord(config.seed)
    IN  /\ OnStream(before)
        /\ OnStream(rngState)
        /\ (Called /\ ~Ran) => rngState = before
        /\ (~Called \/ Ran) =>
              LET k0 == DrawsAt(before)
                  k1 == DrawsAt(rngState)
                  a == IF Ran THEN AiDrawsUpTo(Len(prev[1].snakes)) ELSE 0
                  r == IF Ran THEN Cardinality(Expiring) ELSE 0
                  placed == Cardinality(FreshFoods)
                  misses == k1 - (k0 + a + r + (3 * placed))
                  first == <<FloorMul(Draw(k0 + a + r + 1), config.cols),
                             FloorMul(Draw(k0 + a + r + 2), config.rows)>>
              IN  \* every attempt draws two values and a placement a third
                  /\ misses >= 0
                  /\ misses % 2 = 0
                  /\ (placed = 0 /\ Len(foods) >= MAX_FOOD) => misses = 0
                  \* the policy draws first, agent by agent
                  /\ Ran => \A i \in PolicySteered(lastCommands) :
                        LET turn == computeAiTurn(prev[1].snakes[i], prev[1], prev[1].snakes,
                                                  StateAfter(k0 + AiDrawsUpTo(i - 1)))
                        IN  /\ turn.rng = StateAfter(k0 + AiDrawsUpTo(i))
                            /\ turn.direction # None => lastMoves[i].direction = turn.direction
                  \* then the placement, ticket by ticket
                  /\ Ran => \A k \in Expiring :
                        LET n == Cardinality({l \in Expiring : l <= k})
                            layouts == createSpawnPoints(config)
                            layout == layouts[FloorMul(Draw(k0 + a + n), Len(layouts)) + 1]
                        IN  (\A cell \in LayoutCells(layout) :
                                 OnBoard(cell) /\ cell \notin TakenBefore(k))
                              => \E j \in Respawned :
                                    /\ snakes[j].id = prev[1].respawnQueue[k].snakeId
                                    /\ OfLayout(snakes[j], layout)
                  \* then the foods; the state returned is the one after the last draw
                  /\ placed > 0 =>
                        LET last == foods[Len(foods)]
                            lead == foods[CHOOSE m \in FreshFoods : \A n \in FreshFoods : m <= n]
                        IN  /\ last.position = <<FloorMul(Draw(k1 - 2), config.cols),
                                                 FloorMul(Draw(k1 - 1), config.rows)>>
                            /\ last.kind = pickFoodDefinition(Draw(k1)).kind
                            /\ first \notin HeldCells => lead.position = first

\* a call in which all three stages drew: the policy steered ai-2, the ticket
\* of ai-1 ran out and gave the agent on the layout drawn, and a food was
\* placed for the one the player ate
OneGeneratorSequenceWitness ==
    /\ Ran
    /\ AiDrawsUpTo(Len(prev[1].snakes)) > 0
    /\ Expiring # {}
    /\ Respawned # {}
    /\ FreshFoods # {}
    /\ DrawsAt(rngState) >
          DrawsAt(prev[1].rngState) + AiDrawsUpTo(Len(prev[1].snakes)) + Cardinality(Expiring)

(***************************************************************************)
(* C33  No stale-tick backlog in the frame loop: when a resolver call of a  *)
(* frame returns a state that is not running, the accumulator is set to 0   *)
(* and the frame makes no further call; the first frame after restart() or  *)
(* after a config change zeroes the accumulator and makes no resolver call, *)
(* whatever time has passed; restart() and the config change leave the      *)
(* fresh initial state at tick 0 and an empty command queue.                *)
(***************************************************************************)
NoStaleTickBacklog ==
    /\ lastStep = "frame" =>
          /\ \A k \in 1..Len(frameLog) :
                frameLog[k].returned.status # "running" =>
                    /\ k = Len(frameLog)
                    /\ accumulator = 0
          /\ frameFirst => (frameLog = <<>> /\ accumulator = 0)
          /\ ~loopReset
    /\ lastStep \in {"restart", "config"} =>
          /\ State = createInitialState(requested)
          /\ tick = 0
          /\ status = "running"
          /\ queue = <<>>
    /\ (lastStep # "none" /\ ~sinceReset) => loopReset

\* after a restart, the second call of a frame ended the run
NoStaleTickBacklogWitness ==
    /\ lastStep = "frame"
    /\ restartsLeft < MaxRestarts
    /\ Len(frameLog) = 2
    /\ frameLog[2].given.status = "running"
    /\ frameLog[2].returned.status = "gameover"
    /\ accumulator = 0

(***************************************************************************)
(* C34  Command queue draining: the first resolver call of a frame is given *)
(* all the commands queued when the frame began and the later calls of the  *)
(* frame none; a frame that made a call leaves the queue empty, so that no  *)
(* command is passed to a second call; at the end of every frame the queue  *)
(* holds at most 4 commands, and a frame that made no call keeps the most   *)
(* recently queued commands, in their order, dropping only the oldest.      *)
(***************************************************************************)
QueueDrained ==
    lastStep = "frame" =>
        /\ Len(queue) <= QueueCap
        /\ frameLog # <<>> =>
              /\ frameLog[1].commands = queueAtFrame
              /\ \A k \in 2..Len(frameLog) : frameLog[k].commands = <<>>
              /\ queue = <<>>
        /\ frameLog = <<>> =>
              \E dropped \in 0..Len(queueAtFrame) :
                  /\ dropped = SetMax({0, Len(queueAtFrame) - QueueCap})
                  /\ queue = SubSeq(queueAtFrame, dropped + 1, Len(queueAtFrame))

\* five commands were queued when a frame without a call ended: the oldest is dropped
QueueDrainedWitness ==
    /\ lastStep = "frame"
    /\ frameLog = <<>>
    /\ Len(queueAtFrame) = QueueCap + 1
    /\ Len(queue) = QueueCap
    /\ queue[QueueCap] = queueAtFrame[QueueCap + 1]

(***************************************************************************)
(* C35  The frame loop never steps from a stale snapshot: under every       *)
(* interleaving of frames, restart() and the deferred state-sync effect,    *)
(* stateRef.current is the snapshot returned by the last resolver call or   *)
(* made by the latest restart, and every resolver call is given that        *)
(* snapshot, so that the ticks seen by the consecutive calls of a run grow  *)
(* by exactly 1.                                                            *)
(***************************************************************************)
NeverStepsFromStale ==
    /\ State = latest[1]
    /\ lastStep = "frame" =>
          \A k \in 1..Len(frameLog) : frameLog[k].given = frameLog[k].expected
====
